---- MODULE Spec2Model ----
(***************************************************************************)
(* Model of src/src/course_exam_agent.ts: the knowledge-tree summarizer,   *)
(* the detail lookup, the plan-driven fan-out (routeExamPlan), the three   *)
(* generation handlers and the LangGraph workflow that wires them.         *)
(*                                                                         *)
(* Strings are sequences of characters.  A character is a one-character    *)
(* TLA+ string; a non-ASCII character is written as its code point         *)
(* ("u2026" is the ellipsis), so that lengths count as in JavaScript.      *)
(***************************************************************************)
EXTENDS Integers, Sequences, FiniteSets, TLC

VARIABLES
  input,                    \* the knowledgeTree handed to the invocation
  pc,                       \* position of the run in the graph
  knowledgeTree,            \* channel knowledgeTree
  knowledgeOutline,         \* channel knowledgeOutline
  knowledgeQuestionDigest,  \* channel knowledgeQuestionDigest
  knowledgeMap,             \* channel knowledgeMap
  examPlan,                 \* channel examPlan
  sends,                    \* the Send list returned by routeExamPlan
  taskpc,                   \* position of the handler of each Send
  questions,                \* channel questions
  output,                   \* channel output
  point,                    \* last query given to lookupKnowledgeDetail
  found,                    \* its result
  leafNodes,                \* summarizeKnowledgeContent's array leafNodes
  branchInfo,               \* summarizeKnowledgeContent's array branchInfo
  condenseArgs,             \* text and maxLength given to condenseText
  condenseResults           \* what condenseText returned, call after call

vars == <<input, pc, knowledgeTree, knowledgeOutline, knowledgeQuestionDigest,
          knowledgeMap, examPlan, sends, taskpc, questions, output, point, found,
          leafNodes, branchInfo, condenseArgs, condenseResults>>

-----------------------------------------------------------------------------
(* JavaScript values that are not strings                                   *)

\* They are written as one-element sequences whose element is no character,
\* so that they can be stored and compared where a string can.
Undefined == <<"#undefined">>
Null == <<"#null">>
\* what a read of an inherited Object.prototype member yields (a function
\* or an object: truthy, not a string)
Inherited == <<"#inherited">>

-----------------------------------------------------------------------------
(* Characters and strings                                                   *)

\* characters matched by \s and removed by String.prototype.trim
WhiteSpace == {" ", "\t", "\n", "\r"}

Ellipsis == <<"u2026">>
PathSeparator == <<" ", ">", " ">>

UpperCase == <<"A", "B", "C", "D", "E", "F", "G", "H", "I", "J", "K", "L", "M",
               "N", "O", "P", "Q", "R", "S", "T", "U", "V", "W", "X", "Y", "Z">>
LowerCase == <<"a", "b", "c", "d", "e", "f", "g", "h", "i", "j", "k", "l", "m",
               "n", "o", "p", "q", "r", "s", "t", "u", "v", "w", "x", "y", "z">>

\* String.prototype.toLowerCase
toLowerCase(s) ==
  [i \in 1..Len(s) |->
     IF \E k \in 1..Len(UpperCase) : UpperCase[k] = s[i]
     THEN LowerCase[CHOOSE k \in 1..Len(UpperCase) : UpperCase[k] = s[i]]
     ELSE s[i]]

\* String.prototype.trim
trim(s) ==
  IF \A i \in 1..Len(s) : s[i] \in WhiteSpace THEN <<>>
  ELSE LET first == CHOOSE i \in 1..Len(s) :
                      s[i] \notin WhiteSpace /\ \A j \in 1..(i - 1) : s[j] \in WhiteSpace
           last  == CHOOSE i \in 1..Len(s) :
                      s[i] \notin WhiteSpace /\ \A j \in (i + 1)..Len(s) : s[j] \in WhiteSpace
       IN SubSeq(s, first, last)

\* s.replace(/\s+/g, r): every maximal run of whitespace becomes r (r is
\* <<" ">> or <<>>).  Computed by halving, so that a long text does not need
\* a deep recursion; the two halves are joined at a run that spans the cut.
RECURSIVE replaceWhiteSpace(_, _)
replaceWhiteSpace(s, r) ==
  IF Len(s) = 0 THEN <<>>
  ELSE IF Len(s) = 1 THEN (IF s[1] \in WhiteSpace THEN r ELSE s)
  ELSE LET m     == Len(s) \div 2
           left  == replaceWhiteSpace(SubSeq(s, 1, m), r)
           right == replaceWhiteSpace(SubSeq(s, m + 1, Len(s)), r)
       IN IF s[m] \in WhiteSpace /\ s[m + 1] \in WhiteSpace
          THEN left \o SubSeq(right, Len(r) + 1, Len(right))
          ELSE left \o right

\* where a loop over lo..hi is cut in two
Middle(lo, hi) == (lo + hi) \div 2

\* The member of a one-element set.  Only({ F(x) : x \in {e} }) is F(e) with
\* e evaluated once, before F: loops use it to hand on their accumulator as
\* a value, the way the code does.
Only(S) == CHOOSE x \in S : TRUE

\* String.prototype.slice(0, n) for n >= 0
slice0(s, n) == SubSeq(s, 1, IF n < Len(s) THEN n ELSE Len(s))

\* String.prototype.includes
includes(s, sub) ==
  \E i \in 0..(Len(s) - Len(sub)) : SubSeq(s, i + 1, i + Len(sub)) = sub

\* Array.prototype.join.  Like the loops further down, it is computed by
\* halving the range it runs over: the result is that of the left-to-right
\* loop, and the recursion stays shallow on long lists.
RECURSIVE join(_, _)
join(parts, sep) ==
  IF Len(parts) = 0 THEN <<>>
  ELSE IF Len(parts) = 1 THEN parts[1]
  ELSE LET m == Len(parts) \div 2
       IN join(SubSeq(parts, 1, m), sep) \o sep \o join(SubSeq(parts, m + 1, Len(parts)), sep)

Digits == <<"0", "1", "2", "3", "4", "5", "6", "7", "8", "9">>

\* String(n) for a natural number n
RECURSIVE numberToString(_)
numberToString(n) ==
  IF n < 10 THEN <<Digits[n + 1]>>
  ELSE numberToString(n \div 10) \o <<Digits[(n % 10) + 1]>>

\* a JSON number, kept as the text String(n) gives for it
Number(n) == <<"#number">> \o numberToString(n)
IsNumber(v) == Len(v) > 0 /\ v[1] = "#number"
IsString(v) == Len(v) = 0 \/ v[1] \notin {"#undefined", "#null", "#inherited", "#number"}

\* JavaScript truthiness of a value
Truthy(v) == v # Undefined /\ v # Null /\ v # <<>>

\* a ?? b
Coalesce(a, b) == IF a = Undefined \/ a = Null THEN b ELSE a

-----------------------------------------------------------------------------
(* condenseText and safeToString                                            *)

\* condenseText cutting at maxLength instead of maxLength - 1
condenseTextCutsLate(text, maxLength) ==
  LET cleaned == trim(replaceWhiteSpace(text, <<" ">>))
  IN IF Len(cleaned) <= maxLength THEN cleaned
     ELSE slice0(cleaned, maxLength) \o Ellipsis

condenseText(text, maxLength) ==
  LET cleaned == trim(replaceWhiteSpace(text, <<" ">>))
  IN IF Len(cleaned) <= maxLength THEN cleaned
     ELSE slice0(cleaned, maxLength - 1) \o Ellipsis

\* The values of the model are null, undefined, strings and numbers; the
\* JSON.stringify branch (objects) is not reached by them.
safeToString(value) ==
  IF value = Null \/ value = Undefined THEN <<>>
  ELSE IF IsNumber(value) THEN Tail(value)
  ELSE value

-----------------------------------------------------------------------------
(* A plain JavaScript object used as a string-keyed map (Record<string,     *)
(* string>, created by {}): its own properties in insertion order, and the  *)
(* members it inherits from Object.prototype.                               *)

EmptyObject == <<>>

\* some of the members every {} inherits
ObjectPrototypeKeys ==
  { <<"v", "a", "l", "u", "e", "O", "f">>,
    <<"t", "o", "S", "t", "r", "i", "n", "g">>,
    <<"c", "o", "n", "s", "t", "r", "u", "c", "t", "o", "r">>,
    <<"_", "_", "p", "r", "o", "t", "o", "_", "_">> }

ProtoKey == <<"_", "_", "p", "r", "o", "t", "o", "_", "_">>

OwnKeys(obj) == {obj[i].key : i \in 1..Len(obj)}
HasOwn(obj, key) == \E i \in 1..Len(obj) : obj[i].key = key
OwnValue(obj, key) == obj[CHOOSE i \in 1..Len(obj) : obj[i].key = key].value

\* obj[key] read: own property, else inherited member, else undefined
Get(obj, key) ==
  IF HasOwn(obj, key) THEN OwnValue(obj, key)
  ELSE IF key \in ObjectPrototypeKeys THEN Inherited
  ELSE Undefined

\* obj[key] = value with a string value: "__proto__" is the prototype
\* setter, which ignores a string; an existing property keeps its place
Set(obj, key, value) ==
  IF key = ProtoKey THEN obj
  ELSE IF HasOwn(obj, key)
       THEN [i \in 1..Len(obj) |-> IF obj[i].key = key
                                    THEN [key |-> key, value |-> value]
                                    ELSE obj[i]]
       ELSE Append(obj, [key |-> key, value |-> value])

DigitValue(c) == (CHOOSE k \in 1..10 : Digits[k] = c) - 1
IsDigit(c) == \E k \in 1..10 : Digits[k] = c

RECURSIVE DecimalValue(_)
DecimalValue(s) ==
  IF Len(s) = 0 THEN 0
  ELSE 10 * DecimalValue(SubSeq(s, 1, Len(s) - 1)) + DigitValue(s[Len(s)])

\* a property key that is a canonical array index ("0", "7", "12", not "07").
\* Array indices go up to 2^32 - 2; the keys of this model have at most nine
\* digits, which are all below that.
IsArrayIndex(key) ==
  /\ Len(key) >= 1
  /\ Len(key) <= 9
  /\ \A i \in 1..Len(key) : IsDigit(key[i])
  /\ (Len(key) > 1 => key[1] # "0")

\* entries whose keys are distinct array indices, in ascending numeric order:
\* the k-th is the one with k - 1 smaller keys
SortedIndexEntries(entries) ==
  LET value == [i \in 1..Len(entries) |-> DecimalValue(entries[i].key)]
      Below(i) == Cardinality({j \in 1..Len(entries) : value[j] < value[i]})
  IN [k \in 1..Len(entries) |->
        entries[CHOOSE i \in 1..Len(entries) : Below(i) = k - 1]]

IndexEntry(e) == IsArrayIndex(e.key)
NamedEntry(e) == ~IsArrayIndex(e.key)

\* Object.entries(obj): array-index keys first, in ascending numeric order,
\* then the other string keys in insertion order (OrdinaryOwnPropertyKeys)
ObjectEntries(obj) ==
  SortedIndexEntries(SelectSeq(obj, IndexEntry)) \o SelectSeq(obj, NamedEntry)

-----------------------------------------------------------------------------
(* Parsed JSON documents                                                    *)
(*                                                                          *)
(* A document is a table of object nodes and the list of top-level entries. *)
(* An entry (a top-level value or an element of a children array) is either *)
(* an object, named by its index in the table, or a primitive value.        *)
(* A node holds the four label fields, the description (the first non-null  *)
(* of its three description keys), the values of its keys that start with   *)
(* the sample-question prefix, and its children field.                      *)

ObjectEntry(i) == [obj |-> i, prim |-> Undefined]
PrimitiveEntry(v) == [obj |-> 0, prim |-> v]

Node(id, name, title, label, description, examQuestions, hasChildren, children) ==
  [id |-> id, name |-> name, title |-> title, label |-> label,
   description |-> description, examQuestions |-> examQuestions,
   hasChildren |-> hasChildren, children |-> children]

UnnamedNode == <<"u672a", "u547d", "u540d", "u8282", "u70b9">>
DescriptionLabel == <<"u63cf", "u8ff0", "uff1a">>
SampleQuestionLabel == <<"u5178", "u578b", "u8003", "u9898", "uff1a">>
DetailSeparator == <<" ", "|", " ">>

\* text.split('\n')[0]
FirstLine(text) ==
  IF \E i \in 1..Len(text) : text[i] = "\n"
  THEN SubSeq(text, 1, (CHOOSE i \in 1..Len(text) :
                          text[i] = "\n" /\ \A j \in 1..(i - 1) : text[j] # "\n") - 1)
  ELSE text

NonEmpty(item) == Len(item) > 0

\* the .map(...).filter(...) that builds sampleQuestions
SampleQuestions(node) ==
  SelectSeq([k \in 1..Len(node.examQuestions) |->
               condenseText(FirstLine(safeToString(node.examQuestions[k])), 160)],
            NonEmpty)

\* the label of a node met below the path `path`
CurrentTitle(node, path) ==
  LET titleCandidate ==
        Coalesce(node.id, Coalesce(node.name, Coalesce(node.title, Coalesce(node.label, <<>>))))
      text == trim(safeToString(titleCandidate))
  IN IF Len(text) > 0 THEN text
     ELSE UnnamedNode \o numberToString(Len(path) + 1)

\* number of nodes recorded so far
Visited(acc) == Len(acc.leafNodes) + Len(acc.branchInfo)

\* traverse: acc is the pair of arrays leafNodes and branchInfo that the
\* closure appends to.  Each record also gets the number of its node in
\* traversal order (visit), which the code does not store: it is there for
\* the properties that speak of document order.
RECURSIVE traverse(_, _, _, _), traverseEach(_, _, _, _, _, _)
\* traverse without the test that guards the push to leafNodes
traverseLeafAlways(doc, entry, path, acc) ==
  IF entry.obj = 0 THEN acc
  ELSE LET node         == doc.nodes[entry.obj]
           currentTitle == CurrentTitle(node, path)
           currentPath  == Append(path, currentTitle)
           children     == IF node.hasChildren THEN node.children ELSE <<>>
           description  == condenseText(safeToString(node.description), 240)
           branched     == IF Len(children) > 0
                           THEN traverseEach(doc, children, 1, Len(children), currentPath,
                                  [acc EXCEPT !.branchInfo =
                                     Append(@, [path |-> currentPath, title |-> currentTitle,
                                                childCount |-> Len(children),
                                                visit |-> Visited(acc) + 1])])
                           ELSE acc
       IN IF TRUE
          THEN [branched EXCEPT !.leafNodes =
                  Append(@, [path |-> currentPath, title |-> currentTitle,
                             description |-> description,
                             sampleQuestions |-> SampleQuestions(node),
                             visit |-> Visited(acc) + 1])]
          ELSE branched

traverse(doc, entry, path, acc) ==
  IF entry.obj = 0 THEN acc
  ELSE LET node         == doc.nodes[entry.obj]
           currentTitle == CurrentTitle(node, path)
           currentPath  == Append(path, currentTitle)
           children     == IF node.hasChildren THEN node.children ELSE <<>>
           description  == condenseText(safeToString(node.description), 240)
           branched     == IF Len(children) > 0
                           THEN traverseEach(doc, children, 1, Len(children), currentPath,
                                  [acc EXCEPT !.branchInfo =
                                     Append(@, [path |-> currentPath, title |-> currentTitle,
                                                childCount |-> Len(children),
                                                visit |-> Visited(acc) + 1])])
                           ELSE acc
       IN IF Len(children) = 0
          THEN [branched EXCEPT !.leafNodes =
                  Append(@, [path |-> currentPath, title |-> currentTitle,
                             description |-> description,
                             sampleQuestions |-> SampleQuestions(node),
                             visit |-> Visited(acc) + 1])]
          ELSE branched

\* entries.forEach((child) => traverse(child, path)), for entries[lo..hi]
traverseEach(doc, entries, lo, hi, path, acc) ==
  IF lo > hi THEN acc
  ELSE IF lo = hi THEN traverse(doc, entries[lo], path, acc)
  ELSE Only({ traverseEach(doc, entries, Middle(lo, hi) + 1, hi, path, left) :
                left \in {traverseEach(doc, entries, lo, Middle(lo, hi), path, acc)} })

\* leafNodes and branchInfo after nodes.forEach((node) => traverse(node, []))
Flatten(doc) ==
  traverseEach(doc, doc.top, 1, Len(doc.top), <<>>, [leafNodes |-> <<>>, branchInfo |-> <<>>])

-----------------------------------------------------------------------------
(* summarizeKnowledgeContent                                                *)

\* maxLength of the condensed raw text
RawMaxLength == 1800
\* number of leaves that get a highlight line and detailMap keys
MaxHighlightLeaves == 60
\* number of example leaves in an outline line
MaxRepresentatives == 3

OutlineHead == <<"u77e5", "u8bc6", "u7ed3", "u6784", "u5171", "u8ba1", " ">>
OutlineTail == <<" ", "u4e2a", "u672b", "u7ea7", "u77e5", "u8bc6", "u70b9", "u3002">>
LeafCountHead == <<"uff08", "u53f6", "u5b50", "u77e5", "u8bc6", "u70b9", " ">>
CountTail == <<" ", "u4e2a", "uff09">>
ExamplesHead == <<"uff0c", "u793a", "u4f8b", "uff1a">>
ExamplesSeparator == <<"u3001">>
ChildCountHead == <<"uff08", "u5b50", "u8282", "u70b9", " ">>
HighlightsHead == <<"u91cd", "u70b9", "u53f6", "u5b50", "u77e5", "u8bc6", "u70b9", "u8282",
                    "u9009", "uff08", "u5171", " ">>
HighlightsShown == <<" ", "u4e2a", "uff0c", "u5c55", "u793a", " ">>
HighlightsTail == <<" ", "u4e2a", "uff09", "uff1a", "\n">>
RawDataHead == <<"u77e5", "u8bc6", "u70b9", "u539f", "u59cb", "u6570", "u636e", "uff1a">>

\* branch.path.every((segment, idx) => leaf.path[idx] === segment)
LeafUnderBranch(branch, leaf) ==
  \A idx \in 1..Len(branch.path) :
     idx <= Len(leaf.path) /\ leaf.path[idx] = branch.path[idx]

\* the leaves under a branch, in leafNodes order
LeavesUnder(branch, leaves) ==
  LET Under(leaf) == LeafUnderBranch(branch, leaf)
  IN SelectSeq(leaves, Under)

\* the filter taking the roots for the top-level branches
IsTopLevelBranchAtRoot(branch) == Len(branch.path) = 1

\* branchInfo.filter((branch) => branch.path.length === 2)
IsTopLevelBranch(branch) == Len(branch.path) = 2

OutlineLine(branch, index, leaves) ==
  LET leafUnderBranch == LeavesUnder(branch, leaves)
      shown           == slice0(leafUnderBranch, MaxRepresentatives)
      representatives == join([k \in 1..Len(shown) |-> shown[k].title], ExamplesSeparator)
  IN numberToString(index) \o <<".", " ">> \o join(branch.path, PathSeparator)
       \o LeafCountHead \o numberToString(Len(leafUnderBranch)) \o CountTail
       \o (IF Len(representatives) > 0 THEN ExamplesHead \o representatives ELSE <<>>)

OutlineParts(flat) ==
  LET topLevelBranches == SelectSeq(flat.branchInfo, IsTopLevelBranch)
  IN <<OutlineHead \o numberToString(Len(flat.leafNodes)) \o OutlineTail>> \o
     [k \in 1..Len(topLevelBranches) |-> OutlineLine(topLevelBranches[k], k, flat.leafNodes)]

\* the detail string of the idx-th leaf (idx counts from 1)
LeafDetail(leaf, idx) ==
  numberToString(idx) \o <<".", " ">> \o join(leaf.path, PathSeparator)
    \o (IF Len(leaf.description) > 0
        THEN DetailSeparator \o DescriptionLabel \o leaf.description ELSE <<>>)
    \o (IF Len(leaf.sampleQuestions) > 0
        THEN DetailSeparator \o SampleQuestionLabel \o leaf.sampleQuestions[1] ELSE <<>>)

BranchDetail(branch) ==
  join(branch.path, PathSeparator) \o ChildCountHead
    \o numberToString(branch.childCount) \o CountTail

\* the elements of a JavaScript Set in insertion order
RECURSIVE SetOrder(_)
SetOrder(items) ==
  IF Len(items) = 0 THEN <<>>
  ELSE LET front == SetOrder(SubSeq(items, 1, Len(items) - 1))
           last  == items[Len(items)]
       IN IF \E k \in 1..Len(front) : front[k] = last THEN front ELSE Append(front, last)

\* path.slice(-2)
LastTwo(path) == SubSeq(path, IF Len(path) > 2 THEN Len(path) - 1 ELSE 1, Len(path))

LeafVariants(leaf) ==
  SetOrder(<< trim(leaf.title),
              trim(join(leaf.path, PathSeparator)),
              trim(join(LastTwo(leaf.path), PathSeparator)) >>)

\* the write without its !detailMap[key] guard
RegisterKeyOverwrites(detailMap, key, detailString) ==
  IF Len(key) > 0 THEN Set(detailMap, key, detailString) ELSE detailMap

\* if (key && !detailMap[key]) detailMap[key] = detailString
RegisterKey(detailMap, key, detailString) ==
  IF Len(key) > 0 /\ ~Truthy(Get(detailMap, key))
  THEN Set(detailMap, key, detailString)
  ELSE detailMap

\* the two guarded writes made for one key: the key, then its normalized form
Register(detailMap, key, detailString) ==
  Only({ RegisterKey(written, replaceWhiteSpace(key, <<>>), detailString) :
           written \in {RegisterKey(detailMap, key, detailString)} })

\* variants.forEach from keys[i] on
RECURSIVE RegisterAll(_, _, _, _)
RegisterAll(detailMap, keys, i, detailString) ==
  IF i > Len(keys) THEN detailMap
  ELSE Only({ RegisterAll(written, keys, i + 1, detailString) :
                written \in {Register(detailMap, keys[i], detailString)} })

\* the writes of the highlight loop for the leaf shown[idx]
RegisterLeaf(detailMap, leaf, idx) ==
  RegisterAll(detailMap, LeafVariants(leaf), 1, LeafDetail(leaf, idx))

\* the highlight loop over shown[lo..hi]: detailMap after it
RECURSIVE RegisterLeaves(_, _, _, _)
RegisterLeaves(detailMap, shown, lo, hi) ==
  IF lo > hi THEN detailMap
  ELSE IF lo = hi THEN RegisterLeaf(detailMap, shown[lo], lo)
  ELSE Only({ RegisterLeaves(left, shown, Middle(lo, hi) + 1, hi) :
                left \in {RegisterLeaves(detailMap, shown, lo, Middle(lo, hi))} })

\* the writes of branchInfo.forEach for one branch
RegisterBranch(detailMap, branch) ==
  Register(detailMap, trim(join(branch.path, PathSeparator)), BranchDetail(branch))

\* branchInfo.forEach over branchInfo[lo..hi]: detailMap after it
RECURSIVE RegisterBranches(_, _, _, _)
RegisterBranches(detailMap, branches, lo, hi) ==
  IF lo > hi THEN detailMap
  ELSE IF lo = hi THEN RegisterBranch(detailMap, branches[lo])
  ELSE Only({ RegisterBranches(left, branches, Middle(lo, hi) + 1, hi) :
                left \in {RegisterBranches(detailMap, branches, lo, Middle(lo, hi))} })

\* detailMap after the first n highlighted leaves have been handled
LeafKeys(flat, n) ==
  RegisterLeaves(EmptyObject, slice0(flat.leafNodes, MaxHighlightLeaves), 1, n)

DetailMap(flat) ==
  RegisterBranches(LeafKeys(flat, Len(slice0(flat.leafNodes, MaxHighlightLeaves))),
                   flat.branchInfo, 1, Len(flat.branchInfo))

\* leafHighlights with a line for every leaf
LeafHighlightsUncapped(flat, rawText) ==
  LET shown == flat.leafNodes
      highlightEntries == [k \in 1..Len(shown) |-> LeafDetail(shown[k], k)]
  IN IF Len(highlightEntries) > 0
     THEN HighlightsHead \o numberToString(Len(flat.leafNodes)) \o HighlightsShown
            \o numberToString(Len(highlightEntries)) \o HighlightsTail
            \o join(highlightEntries, <<"\n">>)
     ELSE RawDataHead \o condenseText(rawText, RawMaxLength)

\* leafHighlights, from highlightEntries on
LeafHighlights(flat, rawText) ==
  LET shown == slice0(flat.leafNodes, MaxHighlightLeaves)
      highlightEntries == [k \in 1..Len(shown) |-> LeafDetail(shown[k], k)]
  IN IF Len(highlightEntries) > 0
     THEN HighlightsHead \o numberToString(Len(flat.leafNodes)) \o HighlightsShown
            \o numberToString(Len(highlightEntries)) \o HighlightsTail
            \o join(highlightEntries, <<"\n">>)
     ELSE RawDataHead \o condenseText(rawText, RawMaxLength)

\* raw is the input text together with what JSON.parse makes of it:
\* raw.ok says whether the text parses, raw.doc is the parsed document
summarizeKnowledgeContent(raw) ==
  IF Len(raw.text) = 0
  THEN [outline |-> <<>>, leafHighlights |-> <<>>, detailMap |-> EmptyObject,
        condensedRaw |-> <<>>]
  ELSE IF ~raw.ok
  THEN LET condensed == condenseText(raw.text, RawMaxLength)
       IN [outline |-> condensed, leafHighlights |-> condensed,
           detailMap |-> EmptyObject, condensedRaw |-> condensed]
  ELSE LET flat == Flatten(raw.doc)
       IN [outline |-> join(OutlineParts(flat), <<"\n">>),
           leafHighlights |-> LeafHighlights(flat, raw.text),
           detailMap |-> DetailMap(flat),
           condensedRaw |-> condenseText(raw.text, RawMaxLength)]

-----------------------------------------------------------------------------
(* lookupKnowledgeDetail                                                    *)

\* index of the first entry of an Object.entries list whose key satisfies
\* Test, or 0 (Array.prototype.find)
FindIndex(entries, Test(_)) ==
  IF \E i \in 1..Len(entries) : Test(entries[i].key)
  THEN CHOOSE i \in 1..Len(entries) :
         Test(entries[i].key) /\ \A j \in 1..(i - 1) : ~Test(entries[j].key)
  ELSE 0

\* lookupKnowledgeDetail with the containment scan ahead of the exact stages
lookupPartialFirst(map, query) ==
  LET trimmed    == trim(query)
      normalized == replaceWhiteSpace(trimmed, <<>>)
      entries    == ObjectEntries(map)
      IsPartial(key) == includes(key, trimmed) \/ includes(trimmed, key)
      partial    == FindIndex(entries, IsPartial)
  IN IF Len(trimmed) = 0 THEN Undefined
     ELSE IF partial # 0 THEN entries[partial].value
     ELSE IF Truthy(Get(map, trimmed)) THEN Get(map, trimmed)
     ELSE IF Truthy(Get(map, normalized)) THEN Get(map, normalized)
     ELSE Undefined

lookupKnowledgeDetail(map, query) ==
  LET trimmed    == trim(query)
      normalized == replaceWhiteSpace(trimmed, <<>>)
      entries    == ObjectEntries(map)
      lower      == toLowerCase(trimmed)
      IsExact(key)   == key = trimmed
      IsPartial(key) == includes(key, trimmed) \/ includes(trimmed, key)
      IsCaseInsensitive(key) == includes(toLowerCase(key), lower)
      exact           == FindIndex(entries, IsExact)
      partial         == FindIndex(entries, IsPartial)
      caseInsensitive == FindIndex(entries, IsCaseInsensitive)
  IN IF Len(trimmed) = 0 THEN Undefined
     ELSE IF Truthy(Get(map, trimmed)) THEN Get(map, trimmed)
     ELSE IF Truthy(Get(map, normalized)) THEN Get(map, normalized)
     ELSE IF exact # 0 THEN entries[exact].value
     ELSE IF partial # 0 THEN entries[partial].value
     ELSE IF caseInsensitive # 0 THEN entries[caseInsensitive].value
     ELSE Undefined

-----------------------------------------------------------------------------
(* Inputs: knowledge-tree texts                                             *)

\* largest number of object nodes in an enumerated tree document
MaxNodes == 3
\* largest run of padding white space in a long malformed text
MaxPad == 2
\* a long malformed text has up to RawMaxLength + MaxExtra letters
MaxExtra == 1
\* largest length of a short malformed text
MaxTextLen == 3

Quote == <<"\"">>

\* the label fields, description and sample questions a node can have
NodeKinds ==
  { [id |-> Undefined, name |-> <<"a">>, description |-> Undefined, examQuestions |-> <<>>],
    [id |-> Undefined, name |-> <<"a", " ", "b">>, description |-> <<"d", " ", " ", "e">>,
     examQuestions |-> << <<"q", "\n", "r">> >>],
    [id |-> Number(12), name |-> Undefined, description |-> Undefined, examQuestions |-> <<>>],
    [id |-> Number(21), name |-> <<"a">>, description |-> Undefined, examQuestions |-> <<>>],
    [id |-> Undefined, name |-> <<"v", "a", "l", "u", "e", "O", "f">>,
     description |-> Undefined, examQuestions |-> <<>>] }

\* node i and its ancestors in the parent vector p
RECURSIVE AncestorsOrSelf(_, _)
AncestorsOrSelf(p, i) == IF p[i] = 0 THEN {i} ELSE {i} \cup AncestorsOrSelf(p, p[i])

\* parent vectors of the forests of n nodes numbered in document order
\* (0 marks a top-level node)
ParentVectors(n) ==
  { p \in [1..n -> 0..(n - 1)] :
      /\ p[1] = 0
      /\ \A i \in 2..n : p[i] = 0 \/ p[i] \in AncestorsOrSelf(p, i - 1) }

\* the ascending list of the members of a set of numbers
RECURSIVE Ascending(_)
Ascending(S) ==
  IF S = {} THEN <<>>
  ELSE LET m == CHOOSE x \in S : \A y \in S : x <= y
       IN <<m>> \o Ascending(S \ {m})

ChildrenOf(p, i) ==
  LET js == Ascending({j \in DOMAIN p : p[j] = i})
  IN [k \in 1..Len(js) |-> ObjectEntry(js[k])]

\* the document with parent vector p whose node i has the fields kinds[i]
TreeDoc(p, kinds) ==
  [nodes |-> [i \in DOMAIN p |->
                Node(kinds[i].id, kinds[i].name, Undefined, Undefined,
                     kinds[i].description, kinds[i].examQuestions,
                     ChildrenOf(p, i) # <<>>, ChildrenOf(p, i))],
   top |-> ChildrenOf(p, 0)]

TreeDocs ==
  UNION { { TreeDoc(p, kinds) : p \in ParentVectors(n), kinds \in [1..n -> NodeKinds] }
          : n \in 1..MaxNodes }

\* one root "r" with n leaf children whose ids are the numbers 1..n
WideDoc(n) ==
  [nodes |-> [i \in 1..(n + 1) |->
                IF i = 1
                THEN Node(Undefined, <<"r">>, Undefined, Undefined, Undefined, <<>>,
                          TRUE, [k \in 1..n |-> ObjectEntry(k + 1)])
                ELSE Node(Number(i - 1), Undefined, Undefined, Undefined, Undefined, <<>>,
                          FALSE, <<>>)],
   top |-> <<ObjectEntry(1)>>]

WideDocs == { WideDoc(n) : n \in (MaxHighlightLeaves - 1)..(MaxHighlightLeaves + 1) }

\* a node without fields but, maybe, children
Bare(children) ==
  Node(Undefined, Undefined, Undefined, Undefined, Undefined, <<>>, Len(children) > 0, children)
Named(name, hasChildren, children) ==
  Node(Undefined, name, Undefined, Undefined, Undefined, <<>>, hasChildren, children)

\* documents with nodes that have no label, an empty children list or
\* children that are no objects:
\*   [{},{}]   {"name":"a","children":[{},{"children":[{}]}]}
\*   {"name":"a","children":[]}   {"name":"a","children":[7,{"name":"a b"}]}
OddDocs ==
  { [nodes |-> << Bare(<<>>), Bare(<<>>) >>, top |-> <<ObjectEntry(1), ObjectEntry(2)>>],
    [nodes |-> << Named(<<"a">>, TRUE, <<ObjectEntry(2), ObjectEntry(3)>>),
                  Bare(<<>>), Bare(<<ObjectEntry(4)>>), Bare(<<>>) >>,
     top |-> <<ObjectEntry(1)>>],
    [nodes |-> << Named(<<"a">>, TRUE, <<>>) >>, top |-> <<ObjectEntry(1)>>],
    [nodes |-> << Named(<<"a">>, TRUE, <<PrimitiveEntry(Number(7)), ObjectEntry(2)>>),
                  Named(<<"a", " ", "b">>, FALSE, <<>>) >>,
     top |-> <<ObjectEntry(1)>>] }

\* one node, with every choice of its four label fields among absent,
\* null, empty, blank and a letter
LabelDocs ==
  { [nodes |-> << Node(id, name, title, label, Undefined, <<>>, FALSE, <<>>) >>,
     top |-> <<ObjectEntry(1)>>] :
      id \in {Undefined, Null, <<>>, <<"i">>}, name \in {Undefined, <<"n">>},
      title \in {Undefined, <<" ">>, <<"t">>}, label \in {Undefined, <<"l">>} }

Leaf(name) == Named(name, FALSE, <<>>)

\* documents with branches at depth 1, 2 and 3, a second-level branch
\* with more than MaxRepresentatives leaves, second-level branches with the
\* same label, and a second-level branch without leaves:
\*   r > [ s > [1, 2, 3, 4, t > [5]], u > [6], 7 ]
\*   r > [ s > [x], s > [y] ]
\*   r > [ s > [7], u > [x] ]      (7 a number, not a node)
OutlineDocs ==
  { [nodes |-> << Named(<<"r">>, TRUE, <<ObjectEntry(2), ObjectEntry(9), ObjectEntry(11)>>),
                  Named(<<"s">>, TRUE, <<ObjectEntry(3), ObjectEntry(4), ObjectEntry(5),
                                         ObjectEntry(6), ObjectEntry(7)>>),
                  Leaf(<<"1">>), Leaf(<<"2">>), Leaf(<<"3">>), Leaf(<<"4">>),
                  Named(<<"t">>, TRUE, <<ObjectEntry(8)>>), Leaf(<<"5">>),
                  Named(<<"u">>, TRUE, <<ObjectEntry(10)>>), Leaf(<<"6">>),
                  Leaf(<<"7">>) >>,
     top |-> <<ObjectEntry(1)>>],
    [nodes |-> << Named(<<"r">>, TRUE, <<ObjectEntry(2), ObjectEntry(4)>>),
                  Named(<<"s">>, TRUE, <<ObjectEntry(3)>>), Leaf(<<"x">>),
                  Named(<<"s">>, TRUE, <<ObjectEntry(5)>>), Leaf(<<"y">>) >>,
     top |-> <<ObjectEntry(1)>>],
    [nodes |-> << Named(<<"r">>, TRUE, <<ObjectEntry(2), ObjectEntry(3)>>),
                  Named(<<"s">>, TRUE, <<PrimitiveEntry(Number(7))>>),
                  Named(<<"u">>, TRUE, <<ObjectEntry(4)>>), Leaf(<<"x">>) >>,
     top |-> <<ObjectEntry(1)>>] }

\* documents that hold no object: the texts  7  and  []  and an array of
\* sevens whose text is longer than RawMaxLength
ScalarDocs == { [nodes |-> <<>>, top |-> <<PrimitiveEntry(Number(7))>>],
                [nodes |-> <<>>, top |-> <<>>],
                [nodes |-> <<>>,
                 top |-> [k \in 1..(RawMaxLength \div 2 + 1) |-> PrimitiveEntry(Number(7))]] }

\* JSON text of a document (what the caller serialized)
JsonValue(v) ==
  IF v = Null THEN <<"n", "u", "l", "l">>
  ELSE IF IsNumber(v) THEN Tail(v)
  ELSE Quote \o v \o Quote

JsonField(name, text) == Quote \o name \o Quote \o <<":">> \o text

Present(field) == Len(field) > 0

RECURSIVE JsonEntry(_, _), JsonArray(_, _)
JsonEntry(doc, entry) ==
  IF entry.obj = 0 THEN JsonValue(entry.prim)
  ELSE LET node == doc.nodes[entry.obj]
           Field(name, v) == IF v = Undefined THEN <<>> ELSE JsonField(name, JsonValue(v))
           fields ==
             << Field(<<"i", "d">>, node.id),
                Field(<<"n", "a", "m", "e">>, node.name),
                Field(<<"t", "i", "t", "l", "e">>, node.title),
                Field(<<"l", "a", "b", "e", "l">>, node.label),
                Field(<<"u63cf", "u8ff0">>, node.description) >>
             \o [k \in 1..Len(node.examQuestions) |->
                   JsonField(<<"u8003", "u8bd5", "u9898", "u76ee">> \o numberToString(k),
                             JsonValue(node.examQuestions[k]))]
             \o << IF node.hasChildren
                   THEN JsonField(<<"c", "h", "i", "l", "d", "r", "e", "n">>,
                                  JsonArray(doc, node.children))
                   ELSE <<>> >>
       IN <<"{">> \o join(SelectSeq(fields, Present), <<",">>) \o <<"}">>

JsonArray(doc, entries) ==
  <<"[">> \o join([k \in 1..Len(entries) |-> JsonEntry(doc, entries[k])], <<",">>) \o <<"]">>

\* a bare value when the document has one top-level entry, an array otherwise
JsonText(doc) ==
  IF Len(doc.top) = 1 THEN JsonEntry(doc, doc.top[1]) ELSE JsonArray(doc, doc.top)

EmptyDoc == [nodes |-> <<>>, top |-> <<>>]

JsonInput(doc) == [text |-> JsonText(doc), ok |-> TRUE, doc |-> doc]
\* a text over letters and white space is no JSON text: JSON.parse throws
TextInput(text) == [text |-> text, ok |-> FALSE, doc |-> EmptyDoc]

Repeat(c, n) == [i \in 1..n |-> c]

\* lead spaces, letters, gap spaces, letters, trail line breaks: altogether
\* RawMaxLength - 2 + extra letters
LongText(lead, gap, extra, trail) ==
  Repeat(" ", lead) \o Repeat("a", RawMaxLength \div 2) \o Repeat(" ", gap)
    \o Repeat("b", (RawMaxLength \div 2) - 2 + extra) \o Repeat("\n", trail)

LongTexts ==
  { LongText(lead, gap, extra, trail) :
      lead \in 0..1, gap \in 0..MaxPad, extra \in 0..(2 + MaxExtra), trail \in 0..1 }

ShortTexts ==
  UNION { [1..n -> {"a", " ", "\n"}] : n \in 0..MaxTextLen }

MalformedInputs == { TextInput(text) : text \in LongTexts \cup ShortTexts }

SummarizeInputs ==
  { JsonInput(doc) : doc \in TreeDocs \cup WideDocs \cup ScalarDocs \cup OddDocs
                                \cup LabelDocs \cup OutlineDocs }
    \cup MalformedInputs

-----------------------------------------------------------------------------
(* The knowledge step of the graph, and lookups against its map             *)

NoOutput == [set |-> FALSE, value |-> <<>>]
\* no call of condenseText on its own
NoCall == [text |-> <<>>, maxLength |-> 0]

\* the channels other than knowledgeTree, at their defaults
DefaultChannels ==
  /\ knowledgeOutline = <<>>
  /\ knowledgeQuestionDigest = <<>>
  /\ knowledgeMap = EmptyObject
  /\ examPlan = <<>>
  /\ sends = <<>>
  /\ taskpc = <<>>
  /\ questions = <<>>
  /\ output = NoOutput
  /\ point = Undefined
  /\ found = Undefined
  /\ leafNodes = <<>>
  /\ branchInfo = <<>>
  /\ condenseArgs = NoCall
  /\ condenseResults = <<>>

\* node prepareKnowledge
prepareKnowledgeContext ==
  /\ pc = "__start__"
  /\ LET summary == summarizeKnowledgeContent(input)
     IN /\ knowledgeOutline' = summary.outline
        /\ knowledgeQuestionDigest' = summary.leafHighlights
        /\ knowledgeMap' = summary.detailMap
        /\ knowledgeTree' = summary.condensedRaw
  /\ LET flat == IF Len(input.text) > 0 /\ input.ok
                 THEN Flatten(input.doc)
                 ELSE [leafNodes |-> <<>>, branchInfo |-> <<>>]
     IN /\ leafNodes' = flat.leafNodes
        /\ branchInfo' = flat.branchInfo
  /\ pc' = "prepareExamPlan"
  /\ UNCHANGED <<input, examPlan, sends, taskpc, questions, output, point, found,
                 condenseArgs, condenseResults>>

\* knowledge-point names a plan can ask for
Queries ==
  { <<"a">>, <<" ", "a", "\n">>, <<"a", " ", " ", "b">>, <<"b">>, <<"1">>, <<"2">>,
    <<"v", "a", "l", "u", "e", "O", "f">>, <<"A", " ", "B">>, <<"x">>, <<" ">>,
    <<"r", " ", ">", " ", "6", "1">>, <<"6">> }

\* one lookup of routeExamPlan's knowledgePoints.forEach, for any point
\* (a lookup changes nothing, so one per run shows them all)
Lookup(query) ==
  /\ pc = "prepareExamPlan"
  /\ point = Undefined
  /\ point' = query
  /\ found' = lookupKnowledgeDetail(knowledgeMap, query)
  /\ UNCHANGED <<input, pc, knowledgeTree, knowledgeOutline, knowledgeQuestionDigest,
                 knowledgeMap, examPlan, sends, taskpc, questions, output,
                 leafNodes, branchInfo,
                 condenseArgs, condenseResults>>

InitSummarize ==
  /\ input \in SummarizeInputs
  /\ pc = "__start__"
  /\ knowledgeTree = input.text
  /\ DefaultChannels

NextSummarize ==
  \/ prepareKnowledgeContext
  \/ \E query \in Queries : Lookup(query)

SpecSummarize == InitSummarize /\ [][NextSummarize]_vars

-----------------------------------------------------------------------------
(* Exam plans, the question instruction and routeExamPlan                   *)

\* Math.max that forgets its first argument
MathMaxOfLast(a, b) == b

\* Math.max and Math.min on integers
MathMax(a, b) == IF a >= b THEN a ELSE b
MathMin(a, b) == IF a <= b THEN a ELSE b

QuestionTypes == {"SingleChoice", "MultipleChoices", "ShortAnswer"}

QUESTION_TYPE_LABEL ==
  [SingleChoice |-> <<"u5355", "u9009", "u9898">>,
   MultipleChoices |-> <<"u591a", "u9009", "u9898">>,
   ShortAnswer |-> <<"u7b80", "u7b54", "u9898">>]

QUESTION_TYPE_PROBLEM_TYPE == [SingleChoice |-> 1, MultipleChoices |-> 2, ShortAnswer |-> 5]

\* bounds of the count clamp, of the details listed and of the knowledge text
MinCount == 1
MaxCount == 3
MaxDetails == 8
MaxKnowledgeLength == 2000

PointSeparator == <<"uff1b", " ">>
KnowledgeHead == <<"u76f8", "u5173", "u77e5", "u8bc6", "u70b9", "u6458", "u8981", "uff1a", "\n">>
ContextHead == <<"u5173", "u8054", "u77e5", "u8bc6", "u70b9", "u7cbe", "u8981", "uff1a", "\n">>
Dots == <<".", ".", ".">>

\* An exam plan item keeps the fields the fan-out and the handlers compute
\* with: knowledgePoints, questionType, questionCount, difficulty.  Its other
\* fields are texts that are only copied into the prompt.
PlanItem(questionType, questionCount, difficulty, knowledgePoints) ==
  [questionType |-> questionType, questionCount |-> questionCount,
   difficulty |-> difficulty, knowledgePoints |-> knowledgePoints]

\* The instruction text is a list of lines joined by line breaks.  The lines
\* that depend on the plan item, the order and the knowledge are kept, one
\* field per line (order and difficulty as the numbers printed in theirs);
\* knowledge is Undefined when the line is not pushed.
buildQuestionInstruction(planItem, rawKnowledge, order) ==
  [knowledgePoints |-> join(planItem.knowledgePoints, PointSeparator),
   typeLabel |-> QUESTION_TYPE_LABEL[planItem.questionType],
   order |-> order,
   difficulty |-> planItem.difficulty,
   knowledge |-> IF Truthy(rawKnowledge)
                 THEN KnowledgeHead \o
                        (IF Len(rawKnowledge) > MaxKnowledgeLength
                         THEN slice0(rawKnowledge, MaxKnowledgeLength) \o Dots
                         ELSE rawKnowledge)
                 ELSE Undefined,
   shortAnswer |-> planItem.questionType = "ShortAnswer"]

\* the loop bound of the inner for loop, counting one task too many
planCountInclusive(planItem) ==
  MathMax(MinCount, MathMin(MaxCount, planItem.questionCount)) + 1

planCount(planItem) == MathMax(MinCount, MathMin(MaxCount, planItem.questionCount))

\* knowledgeDetails after the first n rounds of knowledgePoints.forEach
\* (detailSet holds the same strings)
RECURSIVE knowledgeDetails(_, _, _)
knowledgeDetails(map, points, n) ==
  IF n = 0 THEN <<>>
  ELSE Only({ IF Truthy(detail) /\ \A i \in 1..Len(before) : before[i] # detail
              THEN Append(before, detail)
              ELSE before
              : before \in {knowledgeDetails(map, points, n - 1)},
                detail \in {lookupKnowledgeDetail(map, points[n])} })

\* the knowledge context, falling back to the condensed tree text at once
knowledgeContextTreeOnly(state, planItem) ==
  LET details == knowledgeDetails(state.knowledgeMap, planItem.knowledgePoints,
                                  Len(planItem.knowledgePoints))
      listed == slice0(details, MaxDetails)
  IN IF Len(details) > 0
     THEN ContextHead \o
            join([idx \in 1..Len(listed) |->
                    numberToString(idx) \o <<".", " ">> \o listed[idx]], <<"\n">>)
     ELSE state.knowledgeTree

\* the knowledge context listing every detail found
knowledgeContextUncapped(state, planItem) ==
  LET details == knowledgeDetails(state.knowledgeMap, planItem.knowledgePoints,
                                  Len(planItem.knowledgePoints))
      listed == details
  IN IF Len(details) > 0
     THEN ContextHead \o
            join([idx \in 1..Len(listed) |->
                    numberToString(idx) \o <<".", " ">> \o listed[idx]], <<"\n">>)
     ELSE IF Truthy(state.knowledgeQuestionDigest)
          THEN state.knowledgeQuestionDigest
          ELSE state.knowledgeTree

\* state is the record of the channels routeExamPlan reads; its knowledgeMap
\* is an object (the channel's default is {})
knowledgeContext(state, planItem) ==
  LET details == knowledgeDetails(state.knowledgeMap, planItem.knowledgePoints,
                                  Len(planItem.knowledgePoints))
      listed == slice0(details, MaxDetails)
  IN IF Len(details) > 0
     THEN ContextHead \o
            join([idx \in 1..Len(listed) |->
                    numberToString(idx) \o <<".", " ">> \o listed[idx]], <<"\n">>)
     ELSE IF Truthy(state.knowledgeQuestionDigest)
          THEN state.knowledgeQuestionDigest
          ELSE state.knowledgeTree

Send(node, args) == [node |-> node, args |-> args]

\* the sends of one plan item, with a counter that starts again at every item
itemSendsRestarting(state, planItem, questionOrder) ==
  LET context == knowledgeContext(state, planItem)
  IN [i \in 1..planCount(planItem) |->
        Send(planItem.questionType,
             [planItem |-> planItem,
              instructions |-> buildQuestionInstruction(planItem, context, i)])]

\* the callback of flatMap: the sends of one plan item, questionOrder being
\* the counter's value when the callback starts
itemSends(state, planItem, questionOrder) ==
  LET context == knowledgeContext(state, planItem)
  IN [i \in 1..planCount(planItem) |->
        Send(planItem.questionType,
             [planItem |-> planItem,
              instructions |-> buildQuestionInstruction(planItem, context, questionOrder + i)])]

\* flatMap over the first n plan items: the sends so far and the counter
RECURSIVE flatMap(_, _)
flatMap(state, n) ==
  IF n = 0 THEN [sends |-> <<>>, questionOrder |-> 0]
  ELSE Only({ Only({ [sends |-> before.sends \o emitted,
                       questionOrder |-> before.questionOrder + Len(emitted)]
                      : emitted \in {itemSends(state, state.examPlan[n],
                                                before.questionOrder)} })
              : before \in {flatMap(state, n - 1)} })

routeExamPlan(state) ==
  IF Len(state.examPlan) = 0 THEN <<>>
  ELSE flatMap(state, Len(state.examPlan)).sends

-----------------------------------------------------------------------------
(* The generation handlers and the graph                                    *)

\* the fewest items of a blueprint the plan schema accepts
MinBlueprint == 3
\* difficulties the plan schema accepts
MinDifficulty == 3
MaxDifficulty == 5

\* most Sends of a plan of the workflow runs
MaxTasks == 4

\* difficulties a generator reports: its schema takes any number
GeneratorDifficulties == {4, 6}

\* A generator response keeps its difficulty; its Body, Options, Answer and
\* Remark are texts the handlers hand on untouched.  task (the Send whose
\* handler received the response) and reported (the difficulty in the
\* response) are not fields of the code's objects: they record where an
\* entry of questions comes from.
Response(task, difficulty) == [task |-> task, difficulty |-> difficulty]

Enriched(response, difficulty, Type, TypeText, ProblemType) ==
  [task |-> response.task, reported |-> response.difficulty,
   difficulty |-> difficulty, Type |-> Type, TypeText |-> TypeText,
   ProblemType |-> ProblemType]

\* enrichedResponse of SingleChoice
SingleChoiceEnriched(planItem, response) ==
  Enriched(response, MathMax(planItem.difficulty, response.difficulty),
           "SingleChoice", QUESTION_TYPE_LABEL.SingleChoice,
           QUESTION_TYPE_PROBLEM_TYPE.SingleChoice)

\* enrichedResponse of MultipleChoices
MultipleChoicesEnriched(planItem, response) ==
  Enriched(response, MathMax(planItem.difficulty, response.difficulty),
           "MultipleChoice", QUESTION_TYPE_LABEL.MultipleChoices,
           QUESTION_TYPE_PROBLEM_TYPE.MultipleChoices)

\* enrichedResponse of ShortAnswer, keeping the generator's difficulty
ShortAnswerUnclamped(planItem, response) ==
  Enriched(response, response.difficulty,
           "ShortAnswer", <<"u7b80", "u7b54", "u9898">>,
           QUESTION_TYPE_PROBLEM_TYPE.ShortAnswer)

\* enrichedResponse of ShortAnswer
ShortAnswerEnriched(planItem, response) ==
  Enriched(response, MathMax(planItem.difficulty, response.difficulty),
           "ShortAnswer", <<"u7b80", "u7b54", "u9898">>,
           QUESTION_TYPE_PROBLEM_TYPE.ShortAnswer)

\* the reducer of channel questions, keeping the update only
questionsLastValue(x, y) == <<y>>

\* the reducer of channel questions: (x || []).concat(y), y one object
questionsReducer(x, y) == x \o <<y>>

\* the channels routeExamPlan reads
State ==
  [examPlan |-> examPlan, knowledgeMap |-> knowledgeMap,
   knowledgeQuestionDigest |-> knowledgeQuestionDigest,
   knowledgeTree |-> knowledgeTree]

Tasks == 1..Len(sends)

\* prepareExamPlan wired to __start__ as well: it can run ahead of
\* prepareKnowledge
prepareExamPlanAtStart(blueprint) ==
  /\ pc \in {"__start__", "prepareExamPlan"}
  /\ examPlan' = blueprint
  /\ pc' = "routeExamPlan"
  /\ UNCHANGED <<input, knowledgeTree, knowledgeOutline, knowledgeQuestionDigest,
                 knowledgeMap, sends, taskpc, questions, output, point, found,
                 leafNodes, branchInfo,
                 condenseArgs, condenseResults>>

\* node prepareExamPlan: the planner answers with a blueprint
prepareExamPlan(blueprint) ==
  /\ pc = "prepareExamPlan"
  /\ examPlan' = blueprint
  /\ pc' = "routeExamPlan"
  /\ UNCHANGED <<input, knowledgeTree, knowledgeOutline, knowledgeQuestionDigest,
                 knowledgeMap, sends, taskpc, questions, output, point, found,
                 leafNodes, branchInfo,
                 condenseArgs, condenseResults>>

\* node prepareExamPlan: the planner call rejects
prepareExamPlanThrows ==
  /\ pc = "prepareExamPlan"
  /\ pc' = "failed"
  /\ UNCHANGED <<input, knowledgeTree, knowledgeOutline, knowledgeQuestionDigest,
                 knowledgeMap, examPlan, sends, taskpc, questions, output, point,
                 found, leafNodes, branchInfo,
                 condenseArgs, condenseResults>>

\* routeExamPlan ending the run when the plan has fewer than four items
RouteShortPlanEnds ==
  /\ pc = "routeExamPlan"
  /\ sends' = IF Len(examPlan) <= MinBlueprint THEN <<>> ELSE routeExamPlan(State)
  /\ taskpc' = [t \in 1..Len(sends') |-> "pending"]
  /\ pc' = IF Len(sends') = 0 THEN "__end__" ELSE "handlers"
  /\ UNCHANGED <<input, knowledgeTree, knowledgeOutline, knowledgeQuestionDigest,
                 knowledgeMap, examPlan, questions, output, point, found,
                 leafNodes, branchInfo,
                 condenseArgs, condenseResults>>

\* the conditional edge after prepareExamPlan: the Sends become the tasks
\* of the next step; without Sends the run ends
Route ==
  /\ pc = "routeExamPlan"
  /\ sends' = routeExamPlan(State)
  /\ taskpc' = [t \in 1..Len(sends') |-> "pending"]
  /\ pc' = IF Len(sends') = 0 THEN "__end__" ELSE "handlers"
  /\ UNCHANGED <<input, knowledgeTree, knowledgeOutline, knowledgeQuestionDigest,
                 knowledgeMap, examPlan, questions, output, point, found,
                 leafNodes, branchInfo,
                 condenseArgs, condenseResults>>

\* state.planItem of a handler is the planItem its Send carries; it is
\* undefined (the channel's default) when the Send carries none
HasPlanItem(args) == "planItem" \in DOMAIN args

\* a handler that calls the generator without looking at planItem
HandlerEnterUnchecked(t) ==
  /\ pc = "handlers"
  /\ taskpc[t] = "pending"
  /\ taskpc' = [taskpc EXCEPT ![t] = "calling"]
  /\ UNCHANGED <<input, pc, knowledgeTree, knowledgeOutline, knowledgeQuestionDigest,
                 knowledgeMap, examPlan, sends, questions, output, point, found,
                 leafNodes, branchInfo,
                 condenseArgs, condenseResults>>

\* a handler up to its await: the planItem check, then the generator call
HandlerEnter(t) ==
  /\ pc = "handlers"
  /\ taskpc[t] = "pending"
  /\ IF ~HasPlanItem(sends[t].args)
     THEN /\ pc' = "failed"
          /\ UNCHANGED taskpc
     ELSE /\ taskpc' = [taskpc EXCEPT ![t] = "calling"]
          /\ UNCHANGED pc
  /\ UNCHANGED <<input, knowledgeTree, knowledgeOutline, knowledgeQuestionDigest,
                 knowledgeMap, examPlan, sends, questions, output, point, found,
                 leafNodes, branchInfo,
                 condenseArgs, condenseResults>>

\* a handler whose update also resets the plan
HandlerReturnResetsPlan(t, enrichedResponse) ==
  /\ pc = "handlers"
  /\ taskpc[t] = "calling"
  /\ questions' = questionsReducer(questions, enrichedResponse)
  /\ examPlan' = <<>>
  /\ taskpc' = [taskpc EXCEPT ![t] = "done"]
  /\ UNCHANGED <<input, pc, knowledgeTree, knowledgeOutline, knowledgeQuestionDigest,
                 knowledgeMap, sends, output, point, found,
                 leafNodes, branchInfo,
                 condenseArgs, condenseResults>>

\* a handler from its await on: it returns { questions: enrichedResponse },
\* which the reducer adds to the channel
HandlerReturn(t, enrichedResponse) ==
  /\ pc = "handlers"
  /\ taskpc[t] = "calling"
  /\ questions' = questionsReducer(questions, enrichedResponse)
  /\ taskpc' = [taskpc EXCEPT ![t] = "done"]
  /\ UNCHANGED <<input, pc, knowledgeTree, knowledgeOutline, knowledgeQuestionDigest,
                 knowledgeMap, examPlan, sends, output, point, found,
                 leafNodes, branchInfo,
                 condenseArgs, condenseResults>>

SingleChoice(t, difficulty) ==
  /\ sends[t].node = "SingleChoice"
  /\ HandlerReturn(t, SingleChoiceEnriched(sends[t].args.planItem, Response(t, difficulty)))

MultipleChoices(t, difficulty) ==
  /\ sends[t].node = "MultipleChoices"
  /\ HandlerReturn(t, MultipleChoicesEnriched(sends[t].args.planItem, Response(t, difficulty)))

ShortAnswer(t, difficulty) ==
  /\ sends[t].node = "ShortAnswer"
  /\ HandlerReturn(t, ShortAnswerEnriched(sends[t].args.planItem, Response(t, difficulty)))

\* the generator call of a handler rejects and the handler swallows the
\* error: it ends without a question
HandlerThrowsSwallowed(t) ==
  /\ pc = "handlers"
  /\ taskpc[t] = "calling"
  /\ taskpc' = [taskpc EXCEPT ![t] = "done"]
  /\ UNCHANGED <<input, pc, knowledgeTree, knowledgeOutline, knowledgeQuestionDigest,
                 knowledgeMap, examPlan, sends, questions, output, point, found,
                 leafNodes, branchInfo,
                 condenseArgs, condenseResults>>

\* the generator call of a handler rejects: the run fails
HandlerThrows(t) ==
  /\ pc = "handlers"
  /\ taskpc[t] = "calling"
  /\ pc' = "failed"
  /\ UNCHANGED <<input, knowledgeTree, knowledgeOutline, knowledgeQuestionDigest,
                 knowledgeMap, examPlan, sends, taskpc, questions, output, point,
                 found, leafNodes, branchInfo,
                 condenseArgs, condenseResults>>

\* node outputQuestions, run without waiting for the handlers' step to end
outputQuestionsEarly ==
  /\ pc = "handlers"
  /\ output' = [set |-> TRUE, value |-> questions]
  /\ pc' = "__end__"
  /\ UNCHANGED <<input, knowledgeTree, knowledgeOutline, knowledgeQuestionDigest,
                 knowledgeMap, examPlan, sends, taskpc, questions, point, found,
                 leafNodes, branchInfo,
                 condenseArgs, condenseResults>>

\* node outputQuestions, which runs in the step after that of the handlers
outputQuestions ==
  /\ pc = "handlers"
  /\ \A t \in Tasks : taskpc[t] = "done"
  /\ output' = [set |-> TRUE, value |-> questions]
  /\ pc' = "__end__"
  /\ UNCHANGED <<input, knowledgeTree, knowledgeOutline, knowledgeQuestionDigest,
                 knowledgeMap, examPlan, sends, taskpc, questions, point, found,
                 leafNodes, branchInfo,
                 condenseArgs, condenseResults>>

-----------------------------------------------------------------------------
(* Runs of the workflow                                                     *)

\* the tree  {"name":"a","children":[{"name":"a b",...},{"id":12}]}
WorkflowDoc ==
  [nodes |-> << Node(Undefined, <<"a">>, Undefined, Undefined, Undefined, <<>>, TRUE,
                     <<ObjectEntry(2), ObjectEntry(3)>>),
                Node(Undefined, <<"a", " ", "b">>, Undefined, Undefined,
                     <<"d", " ", " ", "e">>, << <<"q", "\n", "r">> >>, FALSE, <<>>),
                Node(Number(12), Undefined, Undefined, Undefined, Undefined, <<>>,
                     FALSE, <<>>) >>,
   top |-> <<ObjectEntry(1)>>]

WorkflowInputs == { JsonInput(WorkflowDoc), TextInput(<<"a", " ", " ", "b">>) }

\* one item of each question type
WorkflowItems ==
  { PlanItem("SingleChoice", 1, MinDifficulty, << <<"1", "2">> >>),
    PlanItem("MultipleChoices", 2, 4, << <<"x">> >>),
    PlanItem("ShortAnswer", 1, MaxDifficulty, << <<"a", "b">>, <<"b">>, <<"1", "2">> >>) }

RECURSIVE TaskCount(_, _)
TaskCount(plan, n) == IF n = 0 THEN 0 ELSE TaskCount(plan, n - 1) + planCount(plan[n])

\* blueprints the plan schema accepts, of the smallest length
WorkflowPlans ==
  { plan \in [1..MinBlueprint -> WorkflowItems] : TaskCount(plan, Len(plan)) <= MaxTasks }

Init ==
  /\ input \in WorkflowInputs
  /\ pc = "__start__"
  /\ knowledgeTree = input.text
  /\ DefaultChannels

Next ==
  \/ prepareKnowledgeContext
  \/ \E blueprint \in WorkflowPlans : prepareExamPlan(blueprint)
  \/ prepareExamPlanThrows
  \/ Route
  \/ \E t \in Tasks : HandlerEnter(t)
  \/ \E t \in Tasks, difficulty \in GeneratorDifficulties : SingleChoice(t, difficulty)
  \/ \E t \in Tasks, difficulty \in GeneratorDifficulties : MultipleChoices(t, difficulty)
  \/ \E t \in Tasks, difficulty \in GeneratorDifficulties : ShortAnswer(t, difficulty)
  \/ \E t \in Tasks : HandlerThrows(t)
  \/ outputQuestions

Spec == Init /\ [][Next]_vars

-----------------------------------------------------------------------------
(* routeExamPlan on its own                                                 *)

\* largest questionCount of an item, and most items, of an enumerated plan
MaxRequested == 4
MaxItems == 2

\* the knowledge points of the items of each type: one point that resolves
\* nothing, or four points of which two resolve to the same leaf
RoutePoints ==
  [SingleChoice |-> << <<"x">> >>,
   MultipleChoices |-> << <<"a", "b">>, <<"x">>, <<"a", " ", "b">>, <<"1", "2">> >>,
   ShortAnswer |-> << <<"a", "b">>, <<"x">>, <<"a", " ", "b">>, <<"1", "2">> >>]

RouteItems ==
  { PlanItem(questionType, questionCount, MinDifficulty, RoutePoints[questionType]) :
      questionType \in QuestionTypes, questionCount \in 0..MaxRequested }

RoutePlans == UNION { [1..n -> RouteItems] : n \in 0..MaxItems }

\* number of leaves of the tree with long descriptions
LongLeaves == 9

\* one root "r" with n leaf children, each with its number as id and a
\* description of 240 letters: its digest is longer than MaxKnowledgeLength
LongDoc(n) ==
  [nodes |-> [i \in 1..(n + 1) |->
                IF i = 1
                THEN Node(Undefined, <<"r">>, Undefined, Undefined, Undefined, <<>>,
                          TRUE, [k \in 1..n |-> ObjectEntry(k + 1)])
                ELSE Node(Number(i - 1), Undefined, Undefined, Undefined,
                          Repeat("d", 240), <<>>, FALSE, <<>>)],
   top |-> <<ObjectEntry(1)>>]

\* plans routed against the long tree: no point resolves, one resolves
LongPlans ==
  { << PlanItem("MultipleChoices", 2, MinDifficulty, << <<"x">>, <<" ">> >>) >>,
    << PlanItem("ShortAnswer", 1, MaxDifficulty, << <<"x">>, <<"r", ">", "2">> >>) >> }

\* a plan routed against the tree of MaxDetails + 2 leaves named 1, 2, ...
\* under the root r: its one item names the leaves 2 and 1, the leaf 2 again
\* by its path, a point that resolves nothing, and then every other leaf
DetailPlans ==
  { << PlanItem("SingleChoice", 2, MinDifficulty,
                << numberToString(2), numberToString(1), <<"r", " ", ">", " ", "2">>, <<"x">> >>
                  \o [k \in 1..MaxDetails |-> numberToString(k + 2)]) >> }

\* every plan against the tree of the workflow runs, the plans of one item
\* at most against the text that is no JSON, and the plans made for the
\* long and the wide tree
RouteCases ==
  { [input |-> JsonInput(WorkflowDoc), examPlan |-> plan] : plan \in RoutePlans }
    \cup { [input |-> TextInput(<<"a", " ", " ", "b">>), examPlan |-> plan] :
             plan \in { short \in RoutePlans : Len(short) <= 1 } }
    \cup { [input |-> JsonInput(LongDoc(LongLeaves)), examPlan |-> plan] : plan \in LongPlans }
    \cup { [input |-> JsonInput(WideDoc(MaxDetails + 2)), examPlan |-> plan] :
             plan \in DetailPlans }

\* the channels as prepareKnowledge leaves them, and any plan
InitRoute ==
  /\ input \in { case.input : case \in RouteCases }
  /\ pc = "routeExamPlan"
  /\ \E summary \in {summarizeKnowledgeContent(input)} :
        /\ knowledgeOutline = summary.outline
        /\ knowledgeQuestionDigest = summary.leafHighlights
        /\ knowledgeMap = summary.detailMap
        /\ knowledgeTree = summary.condensedRaw
  /\ \E flat \in {IF input.ok THEN Flatten(input.doc)
                   ELSE [leafNodes |-> <<>>, branchInfo |-> <<>>]} :
        /\ leafNodes = flat.leafNodes
        /\ branchInfo = flat.branchInfo
  /\ examPlan \in { case.examPlan : case \in { c \in RouteCases : c.input = input } }
  /\ sends = <<>>
  /\ taskpc = <<>>
  /\ questions = <<>>
  /\ output = NoOutput
  /\ point = Undefined
  /\ found = Undefined
  /\ condenseArgs = NoCall
  /\ condenseResults = <<>>

NextRoute == Route

SpecRoute == InitRoute /\ [][NextRoute]_vars

-----------------------------------------------------------------------------
(* The handlers on their own: any Send, with or without a planItem          *)

\* most Sends handled in one step
MaxHandlerSends == 2

HandlerSends ==
  { Send(type, [planItem |-> PlanItem(type, 1, 4, << <<"x">> >>), instructions |-> <<>>])
      : type \in QuestionTypes }
    \cup { Send(type, [instructions |-> <<>>]) : type \in QuestionTypes }

InitHandlers ==
  /\ input = TextInput(<<>>)
  /\ pc = "handlers"
  /\ knowledgeTree = <<>>
  /\ knowledgeOutline = <<>>
  /\ knowledgeQuestionDigest = <<>>
  /\ knowledgeMap = EmptyObject
  /\ examPlan = <<>>
  /\ sends \in UNION { [1..n -> HandlerSends] : n \in 1..MaxHandlerSends }
  /\ taskpc = [t \in 1..Len(sends) |-> "pending"]
  /\ questions = <<>>
  /\ output = NoOutput
  /\ point = Undefined
  /\ found = Undefined
  /\ leafNodes = <<>>
  /\ branchInfo = <<>>
  /\ condenseArgs = NoCall
  /\ condenseResults = <<>>

NextHandlers ==
  \/ \E t \in Tasks : HandlerEnter(t)
  \/ \E t \in Tasks, difficulty \in GeneratorDifficulties : SingleChoice(t, difficulty)
  \/ \E t \in Tasks, difficulty \in GeneratorDifficulties : MultipleChoices(t, difficulty)
  \/ \E t \in Tasks, difficulty \in GeneratorDifficulties : ShortAnswer(t, difficulty)
  \/ \E t \in Tasks : HandlerThrows(t)
  \/ outputQuestions

SpecHandlers == InitHandlers /\ [][NextHandlers]_vars

-----------------------------------------------------------------------------
(* condenseText on its own                                                  *)

\* longest text and largest maxLength given to condenseText
MaxCondenseLen == 4
MaxCondenseBound == 4

CondenseTexts == UNION { [1..n -> {"a", " ", "\n"}] : n \in 0..MaxCondenseLen }

InitCondense ==
  /\ input = TextInput(<<>>)
  /\ pc = "condenseText"
  /\ knowledgeTree = <<>>
  /\ knowledgeOutline = <<>>
  /\ knowledgeQuestionDigest = <<>>
  /\ knowledgeMap = EmptyObject
  /\ examPlan = <<>>
  /\ sends = <<>>
  /\ taskpc = <<>>
  /\ questions = <<>>
  /\ output = NoOutput
  /\ point = Undefined
  /\ found = Undefined
  /\ leafNodes = <<>>
  /\ branchInfo = <<>>
  /\ condenseArgs \in [text : CondenseTexts, maxLength : 1..MaxCondenseBound]
  /\ condenseResults = <<>>

\* condenseText applied to the text, then to its own result
Condense ==
  /\ pc = "condenseText"
  /\ Len(condenseResults) < 2
  /\ condenseResults' =
       Append(condenseResults,
              condenseText(IF Len(condenseResults) = 0 THEN condenseArgs.text
                           ELSE condenseResults[Len(condenseResults)],
                           condenseArgs.maxLength))
  /\ UNCHANGED <<input, pc, knowledgeTree, knowledgeOutline, knowledgeQuestionDigest,
                 knowledgeMap, examPlan, sends, taskpc, questions, output, point,
                 found, leafNodes, branchInfo, condenseArgs>>

NextCondense == Condense

SpecCondense == InitCondense /\ [][NextCondense]_vars

-----------------------------------------------------------------------------
(* Properties of the summarizer and of the lookup (SpecSummarize)           *)

Summarized == pc # "__start__"
Malformed == Summarized /\ Len(input.text) > 0 /\ ~input.ok
Looked == point # Undefined

EndsWithEllipsis(text) == Len(text) > 0 /\ text[Len(text)] = Ellipsis[1]

\* what condenseText measures: the text with its white space collapsed, trimmed
Cleaned(text) == Only({ trim(collapsed) : collapsed \in {replaceWhiteSpace(text, <<" ">>)} })

\* what the fallback returns for any malformed input
MalformedBasics ==
  /\ knowledgeOutline = knowledgeQuestionDigest
  /\ Len(knowledgeOutline) <= RawMaxLength
  /\ knowledgeMap = EmptyObject

\* C6 as stated: on a non-empty input that is no JSON, outline and
\* leafHighlights are the same text of at most 1800 characters, which ends
\* with the ellipsis whenever the ORIGINAL input is longer than 1800
\* characters, and detailMap is empty.
C6_Original ==
  Malformed =>
    /\ MalformedBasics
    /\ (Len(input.text) > RawMaxLength => EndsWithEllipsis(knowledgeOutline))

\* C6 amended: ... which ends with the ellipsis whenever the input, with its
\* white-space runs collapsed to single spaces and trimmed, is longer than
\* 1800 characters ...
C6_MalformedFallback ==
  Malformed =>
    /\ MalformedBasics
    /\ \A cleaned \in {Cleaned(input.text)} :
         /\ Len(cleaned) > RawMaxLength => EndsWithEllipsis(knowledgeOutline)
         /\ Len(cleaned) <= RawMaxLength => knowledgeOutline = cleaned

\* a malformed input of more than 1800 characters that was cut
C6_Witness ==
  /\ Malformed
  /\ Len(input.text) > RawMaxLength
  /\ Len(knowledgeOutline) = RawMaxLength
  /\ EndsWithEllipsis(knowledgeOutline)

\* C7: lookupKnowledgeDetail takes the exact stages before the scans:
\* whenever the trimmed query is a key of the map the value stored under it
\* is returned, whatever other keys contain the query or are contained in
\* it; and when the trimmed query gives nothing, a key equal to the
\* whitespace-stripped query wins over the scans in the same way.
C7_ExactStagesFirst ==
  Looked =>
    \A trimmed \in {trim(point)} :
      \A normalized \in {replaceWhiteSpace(trimmed, <<>>)} :
         /\ (Len(trimmed) > 0 /\ HasOwn(knowledgeMap, trimmed))
              => found = OwnValue(knowledgeMap, trimmed)
         /\ (Len(trimmed) > 0 /\ ~Truthy(Get(knowledgeMap, trimmed))
               /\ HasOwn(knowledgeMap, normalized))
              => found = OwnValue(knowledgeMap, normalized)

\* key matches the trimmed query in the containment stage
Partial(key, trimmed) == includes(key, trimmed) \/ includes(trimmed, key)

\* a lookup whose trimmed query is a key, while a key that Object.entries
\* lists earlier contains it
C7_Witness ==
  /\ Looked
  /\ \A trimmed \in {trim(point)} :
       /\ HasOwn(knowledgeMap, trimmed)
       /\ \A entries \in {ObjectEntries(knowledgeMap)} :
            \E i, j \in 1..Len(entries) :
               /\ i < j
               /\ entries[j].key = trimmed
               /\ Partial(entries[i].key, trimmed)
               /\ entries[i].value # entries[j].value

\* no exact stage answers the trimmed query
NoExactStage(trimmed) ==
  /\ Len(trimmed) > 0
  /\ ~Truthy(Get(knowledgeMap, trimmed))
  /\ ~Truthy(Get(knowledgeMap, replaceWhiteSpace(trimmed, <<>>)))
  /\ ~HasOwn(knowledgeMap, trimmed)

\* C8: when no exact stage matches, the containment stage returns the value
\* of the first key, in the order in which the keys were inserted into the
\* map, that contains the trimmed query or is contained in it.
C8_PartialInInsertionOrder ==
  Looked =>
    \A trimmed \in {trim(point)} :
      (NoExactStage(trimmed)
         /\ \E i \in 1..Len(knowledgeMap) : Partial(knowledgeMap[i].key, trimmed))
      => found = knowledgeMap[CHOOSE i \in 1..Len(knowledgeMap) :
                                /\ Partial(knowledgeMap[i].key, trimmed)
                                /\ \A j \in 1..(i - 1) :
                                      ~Partial(knowledgeMap[j].key, trimmed)].value

\* the leaves that get detailMap keys
Shown == slice0(leafNodes, MaxHighlightLeaves)

\* the keys a write sequence for `key` asks for: the key and its
\* whitespace-stripped form, when not empty
KeyForms(key) == {key, replaceWhiteSpace(key, <<>>)} \ {<<>>}

\* keys asked for by a leaf: label, full path, last two path segments
LeafKeySet(leaf) ==
  UNION { KeyForms(key) :
            key \in { trim(leaf.title),
                      trim(join(leaf.path, PathSeparator)),
                      trim(join(LastTwo(leaf.path), PathSeparator)) } }

\* keys asked for by a branch: its full path
BranchKeys(branch) == KeyForms(trim(join(branch.path, PathSeparator)))

\* every node that asks for keys, in the order the code registers them:
\* the shown leaves in leafNodes order, then the branches in branchInfo order
Writers ==
  [w \in 1..(Len(Shown) + Len(branchInfo)) |->
     IF w <= Len(Shown)
     THEN [keys |-> LeafKeySet(Shown[w]), detail |-> LeafDetail(Shown[w], w),
           visit |-> Shown[w].visit]
     ELSE [keys |-> BranchKeys(branchInfo[w - Len(Shown)]),
           detail |-> BranchDetail(branchInfo[w - Len(Shown)]),
           visit |-> branchInfo[w - Len(Shown)].visit]]

\* C9 as stated: a key of detailMap holds the detail of the node that comes
\* first in document order among the nodes (leaves or branches) that
\* produce that key.
C9_Original ==
  Summarized =>
    \A writers \in {Writers} :
      \A i \in 1..Len(knowledgeMap) :
        \E w \in 1..Len(writers) :
           /\ knowledgeMap[i].key \in writers[w].keys
           /\ \A v \in 1..Len(writers) :
                 knowledgeMap[i].key \in writers[v].keys => writers[w].visit <= writers[v].visit
           /\ knowledgeMap[i].value = writers[w].detail

\* C9 amended: a key that is present is never overwritten, and when several
\* nodes produce the same key the value kept is the detail of the one that
\* is registered first, the first 60 leaves being registered in traversal
\* order before the branches in traversal order (so a leaf wins over a
\* branch that comes before it in the document).
C9_FirstWriterWins ==
  Summarized =>
    \A writers \in {Writers} :
      \A i \in 1..Len(knowledgeMap) :
        \E w \in 1..Len(writers) :
           /\ knowledgeMap[i].key \in writers[w].keys
           /\ \A v \in 1..(w - 1) : knowledgeMap[i].key \notin writers[v].keys
           /\ knowledgeMap[i].value = writers[w].detail

\* a key asked for by two leaves with different details, and a key asked for
\* by a branch and by a leaf that comes after it
C9_Witness ==
  /\ Summarized
  /\ \A writers \in {Writers} :
       \E i \in 1..Len(knowledgeMap) :
         \E v, w \in 1..Len(writers) :
            /\ v < w
            /\ knowledgeMap[i].key \in writers[v].keys
            /\ knowledgeMap[i].key \in writers[w].keys
            /\ writers[v].detail # writers[w].detail
            /\ knowledgeMap[i].value = writers[v].detail

\* C10: detailMap has a key for the label, the full path and the last two
\* path segments of each of the first 60 leaves, for the full path of every
\* branch, and for the whitespace-stripped form of each of these keys.
C10_EveryVariantIsAKey ==
  Summarized =>
    \A writers \in {Writers} :
      \A w \in 1..Len(writers) :
        \A key \in writers[w].keys : HasOwn(knowledgeMap, key)

-----------------------------------------------------------------------------
(* Properties of the fan-out (SpecRoute) and of the workflow (Spec)         *)

Routed == pc \in {"handlers", "__end__", "failed"}
Done(t) == taskpc[t] = "done"
AllSucceeded == pc \in {"handlers", "__end__"} /\ Len(sends) > 0 /\ \A t \in Tasks : Done(t)

\* the entries of questions that come from the handler of Send t
EntriesOf(t) == { i \in 1..Len(questions) : questions[i].task = t }

\* C1: questions holds one entry for every Send whose handler has returned
\* and none for the others, in every order of completion; so when every
\* handler has succeeded it holds exactly one entry per Send emitted by
\* routeExamPlan and is as long as the list of Sends.
C1_OneEntryPerTask ==
  /\ \A t \in Tasks : Cardinality(EntriesOf(t)) = (IF Done(t) THEN 1 ELSE 0)
  /\ \A i \in 1..Len(questions) : questions[i].task \in Tasks
  /\ AllSucceeded => Len(questions) = Len(sends)

\* a run whose handlers all succeeded, the last Send's handler returning first
C1_Witness ==
  /\ output.set
  /\ Len(sends) = MaxTasks
  /\ Len(output.value) = MaxTasks
  /\ questions[1].task = Len(sends)

\* what the Sends must be when plan item i yields counts[i] of them: for
\* each item in plan order, that many Sends to the node named by the item's
\* questionType, each carrying the item
RECURSIVE Blocks(_, _, _)
Blocks(plan, counts, n) ==
  IF n = 0 THEN <<>>
  ELSE Blocks(plan, counts, n - 1)
         \o [i \in 1..counts[n] |-> [node |-> plan[n].questionType, planItem |-> plan[n]]]

Emitted == [t \in Tasks |-> [node |-> sends[t].node, planItem |-> sends[t].args.planItem]]

\* C2: routeExamPlan emits, for each plan item whose questionCount is k
\* with 1 <= k <= 3, exactly k Sends tagged with the item's questionType and
\* carrying the item, and the Sends of the items follow one another in plan
\* order.
C2_CountTagOrder ==
  (Routed /\ Len(examPlan) > 0) =>
    \E counts \in [1..Len(examPlan) -> 0..(MaxCount + 1)] :
      /\ \A i \in 1..Len(examPlan) :
           examPlan[i].questionCount \in MinCount..MaxCount
             => counts[i] = examPlan[i].questionCount
      /\ Emitted = Blocks(examPlan, counts, Len(examPlan))

\* a plan of two items of different types, asking for 2 and for 3 questions
C2_Witness ==
  /\ Routed
  /\ Len(examPlan) = 2
  /\ examPlan[1].questionCount = 2
  /\ examPlan[2].questionCount = 3
  /\ examPlan[1].questionType # examPlan[2].questionType
  /\ Len(sends) = 5
  /\ sends[3].node = examPlan[2].questionType

\* C3: the n-th Send emitted by routeExamPlan carries order number n: the
\* counter runs through the whole plan, so the order numbers are strictly
\* increasing in emission order.
C3_SharedOrderCounter ==
  Routed =>
    /\ \A t \in Tasks : sends[t].args.instructions.order = t
    /\ \A s, t \in Tasks :
         s < t => sends[s].args.instructions.order < sends[t].args.instructions.order

\* the second item of a plan starts where the first one stopped
C3_Witness ==
  /\ Routed
  /\ Len(examPlan) = 2
  /\ examPlan[1].questionCount = 3
  /\ examPlan[2].questionCount = 2
  /\ sends[4].args.planItem = examPlan[2]
  /\ sends[4].args.instructions.order = 4
  /\ sends[5].args.instructions.order = 5

PlanItemOf(question) == sends[question.task].args.planItem

C5_DifficultyInScale ==
  output.set =>
    \A i \in 1..Len(output.value) : output.value[i].difficulty \in 1..5

-----------------------------------------------------------------------------
(* Round trips, fallbacks and failures                                      *)

DistinctLeafLabels ==
  \A i, j \in 1..Len(leafNodes) : i # j => leafNodes[i].title # leafNodes[j].title

\* C11: for a tree of at most 60 leaves whose labels are pairwise distinct,
\* looking up the label of a leaf in the detailMap built from the tree
\* returns a detail string that contains the full path of that leaf, joined
\* by ' > '.
C11_LabelRoundTrip ==
  (Looked /\ input.ok /\ Len(leafNodes) <= MaxHighlightLeaves /\ DistinctLeafLabels) =>
    \A i \in 1..Len(leafNodes) :
      point = leafNodes[i].title =>
        /\ IsString(found)
        /\ includes(found, join(leafNodes[i].path, PathSeparator))

\* no knowledge point of the plan item resolves in the lookup map
NoneResolves(planItem) ==
  \A k \in 1..Len(planItem.knowledgePoints) :
    ~Truthy(lookupKnowledgeDetail(knowledgeMap, planItem.knowledgePoints[k]))

\* the instruction contains the text
InstructionContains(instructions, text) ==
  \/ Len(text) = 0
  \/ /\ instructions.knowledge # Undefined
     /\ includes(instructions.knowledge, text)

\* C12 as stated: for a plan item none of whose knowledge points resolves,
\* the instruction of every Send of the item contains the knowledge digest
\* complete and unmodified, whatever the length of the digest.
C12_Original ==
  Routed =>
    \A t \in Tasks :
      NoneResolves(sends[t].args.planItem)
        => InstructionContains(sends[t].args.instructions, knowledgeQuestionDigest)

\* C12 amended: ... the instruction contains the digest complete and
\* unmodified when the digest has at most 2000 characters, and its first
\* 2000 characters followed by '...' when it is longer.
C12_DigestFallback ==
  Routed =>
    \A t \in Tasks :
      NoneResolves(sends[t].args.planItem) =>
        IF Len(knowledgeQuestionDigest) <= MaxKnowledgeLength
        THEN InstructionContains(sends[t].args.instructions, knowledgeQuestionDigest)
        ELSE sends[t].args.instructions.knowledge
               = KnowledgeHead \o SubSeq(knowledgeQuestionDigest, 1, MaxKnowledgeLength) \o Dots

\* the Sends of an item that resolves nothing, against a digest of more than
\* 2000 characters: the instruction carries the cut digest
C12_Witness ==
  /\ Routed
  /\ Len(sends) = 2
  /\ NoneResolves(sends[2].args.planItem)
  /\ Len(knowledgeQuestionDigest) > MaxKnowledgeLength
  /\ Len(sends[2].args.instructions.knowledge) = Len(KnowledgeHead) + MaxKnowledgeLength + 3

\* C13: a handler invoked without a planItem fails at once: its step ends
\* the run as failed and adds nothing to questions; it never gets to call
\* the generator and never has an entry in questions.
C13_NoPlanItemFails ==
  /\ [](\A t \in Tasks :
          ~HasPlanItem(sends[t].args) => taskpc[t] = "pending" /\ EntriesOf(t) = {})
  /\ [][\A t \in Tasks :
          (~HasPlanItem(sends[t].args) /\ HandlerEnter(t))
            => pc' = "failed" /\ questions' = questions]_vars

\* a handler without a planItem has failed the run while the handler of a
\* Send with a planItem was calling its generator
C13_Witness ==
  /\ pc = "failed"
  /\ \E t \in Tasks : ~HasPlanItem(sends[t].args)
  /\ \E t \in Tasks : HasPlanItem(sends[t].args) /\ taskpc[t] = "calling"
  /\ questions = <<>>

\* C14: output is written only when every Send emitted by routeExamPlan has
\* had its handler return, and what is written is the questions list as it
\* stands: same entries, same order, nothing added or dropped.
C14_OutputAfterAllTasks ==
  /\ [](output.set => (\A t \in Tasks : Done(t)) /\ output.value = questions)
  /\ [][output' # output =>
          /\ Len(sends) > 0
          /\ \A t \in Tasks : Done(t)
          /\ output' = [set |-> TRUE, value |-> questions]
          /\ questions' = questions]_vars

\* the output of a run of MaxTasks Sends whose handlers returned out of
\* emission order
C14_Witness ==
  /\ pc = "__end__"
  /\ output.set
  /\ Len(sends) = MaxTasks
  /\ output.value = questions
  /\ \E i \in 1..(Len(output.value) - 1) : output.value[i].task > output.value[i + 1].task

\* the Sends that carry plan item i, when the plan's items are all different
SendsOfItem(i) == { t \in Tasks : sends[t].args.planItem = examPlan[i] }

DistinctItems == \A i, j \in 1..Len(examPlan) : i # j => examPlan[i] # examPlan[j]

\* the count of an item, brought into 1..3
Clamped(count) == IF count < MinCount THEN MinCount ELSE IF count > MaxCount THEN MaxCount ELSE count

\* C15: routeExamPlan brings the requested count of each plan item into
\* 1..3 before it emits: an item asking for less than 1 gets exactly 1 Send,
\* an item asking for more than 3 gets exactly 3, so every item gets between
\* 1 and 3 Sends and a plan of n items between n and 3n.
C15_CountClamped ==
  Routed =>
    /\ Len(sends) >= Len(examPlan)
    /\ Len(sends) <= MaxCount * Len(examPlan)
    /\ \E counts \in [1..Len(examPlan) -> MinCount..MaxCount] :
         /\ \A i \in 1..Len(examPlan) : counts[i] = Clamped(examPlan[i].questionCount)
         /\ Emitted = Blocks(examPlan, counts, Len(examPlan))
    /\ DistinctItems =>
         \A i \in 1..Len(examPlan) :
           /\ examPlan[i].questionCount < MinCount => Cardinality(SendsOfItem(i)) = MinCount
           /\ examPlan[i].questionCount > MaxCount => Cardinality(SendsOfItem(i)) = MaxCount

\* a plan whose first item asks for no question and whose second asks for
\* more than three
C15_Witness ==
  /\ Routed
  /\ Len(examPlan) = 2
  /\ examPlan[1].questionCount = 0
  /\ examPlan[2].questionCount = MaxRequested
  /\ Len(sends) = MinCount + MaxCount
  /\ sends[1].args.planItem = examPlan[1]
  /\ sends[2].args.planItem = examPlan[2]

Failed == pc = "failed"

\* C16: the failure of one handler ends the invocation: after it no step is
\* taken (no handler is tried again, the siblings' results are not gathered,
\* outputQuestions does not run), output stays unset, and output is only
\* ever set from a list that holds the question of every Send.
C16_FailureAborts ==
  /\ [](Failed => ~output.set)
  /\ [](output.set => \A t \in Tasks : \E i \in 1..Len(output.value) : output.value[i].task = t)
  /\ [][~Failed]_vars

\* a handler failed after two of its siblings had returned their questions
C16_Witness ==
  /\ Failed
  /\ Len(sends) > 2
  /\ Len(questions) = 2
  /\ ~output.set
  /\ \E t \in Tasks : taskpc[t] = "calling"

\* the only white space of the text is single spaces
SingleSpaced(text) ==
  /\ \A i \in 1..Len(text) : text[i] \in WhiteSpace => text[i] = " "
  /\ \A i \in 1..(Len(text) - 1) : ~(text[i] = " " /\ text[i + 1] = " ")

\* C17: for every text and every bound N >= 1, condenseText(t, N) has at
\* most N characters and no white space but single spaces, and condensing
\* it again with the same bound gives it back unchanged.
C17_CondenseIdempotent ==
  /\ Len(condenseResults) >= 1 =>
       /\ Len(condenseResults[1]) <= condenseArgs.maxLength
       /\ SingleSpaced(condenseResults[1])
  /\ Len(condenseResults) = 2 => condenseResults[2] = condenseResults[1]

\* a text that was cut right after a space, and condensed a second time
C17_Witness ==
  /\ Len(condenseResults) = 2
  /\ Len(condenseArgs.text) > condenseArgs.maxLength
  /\ condenseArgs.maxLength >= 3
  /\ condenseResults[1][Len(condenseResults[1])] = Ellipsis[1]
  /\ condenseResults[1][Len(condenseResults[1]) - 1] = " "

-----------------------------------------------------------------------------
(* Properties of the traversal (SpecSummarize)                              *)

Parsed == Summarized /\ Len(input.text) > 0 /\ input.ok

ChildEntries(node) == IF node.hasChildren THEN node.children ELSE <<>>

\* the object nodes of a document in depth-first pre-order, by their
\* numbers in the node table
RECURSIVE PreOrder(_, _, _, _)
PreOrder(doc, entries, lo, hi) ==
  IF lo > hi THEN <<>>
  ELSE IF lo = hi
  THEN IF entries[lo].obj = 0 THEN <<>>
       ELSE <<entries[lo].obj>>
              \o PreOrder(doc, ChildEntries(doc.nodes[entries[lo].obj]), 1,
                          Len(ChildEntries(doc.nodes[entries[lo].obj])))
  ELSE PreOrder(doc, entries, lo, Middle(lo, hi)) \o PreOrder(doc, entries, Middle(lo, hi) + 1, hi)

\* the node whose children hold node n, or 0 for a top-level node
ParentOf(doc, n) ==
  IF \E m \in 1..Len(doc.nodes) :
       \E k \in 1..Len(ChildEntries(doc.nodes[m])) : ChildEntries(doc.nodes[m])[k].obj = n
  THEN CHOOSE m \in 1..Len(doc.nodes) :
         \E k \in 1..Len(ChildEntries(doc.nodes[m])) : ChildEntries(doc.nodes[m])[k].obj = n
  ELSE 0

LeavesAt(k) == { i \in 1..Len(leafNodes) : leafNodes[i].visit = k }
BranchesAt(k) == { i \in 1..Len(branchInfo) : branchInfo[i].visit = k }

\* path and title of the record of the k-th node visited
PathAt(k) ==
  IF LeavesAt(k) # {} THEN leafNodes[Only(LeavesAt(k))].path
  ELSE branchInfo[Only(BranchesAt(k))].path
TitleAt(k) ==
  IF LeavesAt(k) # {} THEN leafNodes[Only(LeavesAt(k))].title
  ELSE branchInfo[Only(BranchesAt(k))].title

\* C18: the traversal records every object node of the tree exactly once,
\* in branchInfo when the node has one or more children and in leafNodes
\* when it has none, never in both; the leaves stand in leafNodes in
\* depth-first pre-order; and the path of each record is the path of its
\* parent's record followed by the node's own label.
C18_EachNodeOnce ==
  Parsed =>
    \A order \in {PreOrder(input.doc, input.doc.top, 1, Len(input.doc.top))} :
      /\ Len(leafNodes) + Len(branchInfo) = Len(order)
      /\ \A k \in 1..Len(order) :
           /\ Cardinality(LeavesAt(k))
                = (IF Len(ChildEntries(input.doc.nodes[order[k]])) = 0 THEN 1 ELSE 0)
           /\ Cardinality(BranchesAt(k))
                = (IF Len(ChildEntries(input.doc.nodes[order[k]])) > 0 THEN 1 ELSE 0)
           /\ \A parent \in {ParentOf(input.doc, order[k])} :
                PathAt(k) = (IF parent = 0 THEN <<>>
                             ELSE PathAt(CHOOSE m \in 1..Len(order) : order[m] = parent))
                              \o <<TitleAt(k)>>
      /\ \A i, j \in 1..Len(leafNodes) : i < j => leafNodes[i].visit < leafNodes[j].visit

\* a chain of three nodes: a branch, below it a branch, below it a leaf,
\* the paths growing by one label at each level
C18_Witness ==
  /\ Parsed
  /\ Len(branchInfo) = 2
  /\ Len(leafNodes) = 1
  /\ Len(branchInfo[2].path) = 2
  /\ Len(leafNodes[1].path) = 3
  /\ leafNodes[1].visit = 3

\* the four label fields of a node in priority order, as texts
LabelTexts(node) ==
  << trim(safeToString(node.id)), trim(safeToString(node.name)),
     trim(safeToString(node.title)), trim(safeToString(node.label)) >>

\* C19: the label recorded for a node is the first non-empty value among its
\* id, name, title and label, in that order, and the synthetic label made of
\* the node's depth is recorded only when none of the four is non-empty.
C19_FirstNonEmptyField ==
  Parsed =>
    \A order \in {PreOrder(input.doc, input.doc.top, 1, Len(input.doc.top))} :
      \A k \in 1..Len(order) :
        \A texts \in {LabelTexts(input.doc.nodes[order[k]])} :
          IF \E i \in 1..4 : Len(texts[i]) > 0
          THEN TitleAt(k) = texts[CHOOSE i \in 1..4 :
                                    /\ Len(texts[i]) > 0
                                    /\ \A j \in 1..(i - 1) : Len(texts[j]) = 0]
          ELSE TitleAt(k) = UnnamedNode \o numberToString(Len(PathAt(k)))

\* no label field of the node holds a text
Unlabeled(node) == \A i \in 1..4 : Len(LabelTexts(node)[i]) = 0

\* C20: two unlabeled children of the same parent are recorded with distinct
\* labels and distinct paths.
C20_UnlabeledSiblingsDiffer ==
  Parsed =>
    \A order \in {PreOrder(input.doc, input.doc.top, 1, Len(input.doc.top))} :
      \A k, m \in 1..Len(order) :
        ( /\ k # m
          /\ ParentOf(input.doc, order[k]) # 0
          /\ ParentOf(input.doc, order[k]) = ParentOf(input.doc, order[m])
          /\ Unlabeled(input.doc.nodes[order[k]])
          /\ Unlabeled(input.doc.nodes[order[m]]) )
        => /\ TitleAt(k) # TitleAt(m)
           /\ PathAt(k) # PathAt(m)

-----------------------------------------------------------------------------
(* Properties of the outline and of the leaf highlights (SpecSummarize)     *)

\* the k-th smallest member of a set of numbers
Nth(S, k) == CHOOSE i \in S : Cardinality({ j \in S : j < i }) = k - 1

LineBreaks(text) == { i \in 1..Len(text) : text[i] = "\n" }
LineCount(text) == Cardinality(LineBreaks(text)) + 1
\* the k-th line of a text, without its line break
Line(text, k) ==
  SubSeq(text,
         IF k = 1 THEN 1 ELSE Nth(LineBreaks(text), k - 1) + 1,
         IF k = LineCount(text) THEN Len(text) ELSE Nth(LineBreaks(text), k) - 1)

StartsWith(path, prefix) ==
  Len(prefix) <= Len(path) /\ SubSeq(path, 1, Len(prefix)) = prefix

\* the branches whose path has two labels, and the leaves whose path starts
\* with the path of a branch, by their places in branchInfo and leafNodes
SecondLevel == { b \in 1..Len(branchInfo) : Len(branchInfo[b].path) = 2 }
LeavesBelow(b) == { i \in 1..Len(leafNodes) : StartsWith(leafNodes[i].path, branchInfo[b].path) }

\* the labels of the first leaves below a branch, MaxRepresentatives at most
Examples(b) ==
  [k \in 1..MathMin(MaxRepresentatives, Cardinality(LeavesBelow(b))) |->
     leafNodes[Nth(LeavesBelow(b), k)].title]

\* C21: the outline is a header line with the number of all leaves, then one
\* line per branch whose path has two labels, in traversal order and
\* numbered from 1, with the branch's path, the number of leaves whose path
\* starts with that path and the labels of the first three such leaves at
\* most; no other branch has a line.
C21_OutlineLines ==
  Parsed =>
    /\ LineCount(knowledgeOutline) = 1 + Cardinality(SecondLevel)
    /\ Line(knowledgeOutline, 1)
         = OutlineHead \o numberToString(Len(leafNodes)) \o OutlineTail
    /\ \A k \in 1..Cardinality(SecondLevel) :
         \A b \in {Nth(SecondLevel, k)} :
           Line(knowledgeOutline, k + 1)
             = numberToString(k) \o <<".", " ">> \o join(branchInfo[b].path, PathSeparator)
                 \o LeafCountHead \o numberToString(Cardinality(LeavesBelow(b))) \o CountTail
                 \o (IF LeavesBelow(b) = {} THEN <<>>
                     ELSE ExamplesHead \o join(Examples(b), ExamplesSeparator))

\* two second-level branches, the first with more leaves below it than it
\* shows, and branches at the first and the third level that have no line
C21_Witness ==
  /\ Parsed
  /\ Cardinality(SecondLevel) = 2
  /\ Cardinality(LeavesBelow(Nth(SecondLevel, 1))) > MaxRepresentatives
  /\ \E b \in 1..Len(branchInfo) : Len(branchInfo[b].path) = 1
  /\ \E b \in 1..Len(branchInfo) : Len(branchInfo[b].path) = 3
  /\ LineCount(knowledgeOutline) = 3

\* C22: leafHighlights has a line for each of the first min(60, total)
\* leaves in traversal order, numbered from 1, and for no other leaf; when
\* the parsed input has no leaf it is the raw-data label followed by the raw
\* input condensed to at most 1800 characters.
C22_HighlightsCapped ==
  Parsed =>
    IF Len(leafNodes) = 0
    THEN \E rest \in {SubSeq(knowledgeQuestionDigest, Len(RawDataHead) + 1,
                             Len(knowledgeQuestionDigest))} :
           /\ knowledgeQuestionDigest = RawDataHead \o rest
           /\ Len(rest) <= RawMaxLength
           /\ rest = condenseText(input.text, RawMaxLength)
    ELSE \A shown \in {MathMin(MaxHighlightLeaves, Len(leafNodes))} :
           /\ LineCount(knowledgeQuestionDigest) = 1 + shown
           /\ Line(knowledgeQuestionDigest, 1) \o <<"\n">>
                = HighlightsHead \o numberToString(Len(leafNodes)) \o HighlightsShown
                    \o numberToString(shown) \o HighlightsTail
           /\ \A k \in 1..shown :
                StartsWith(Line(knowledgeQuestionDigest, k + 1),
                           numberToString(k) \o <<".", " ">>
                             \o join(leafNodes[k].path, PathSeparator))

\* a tree with one leaf more than is shown
C22_Witness ==
  /\ Parsed
  /\ Len(leafNodes) = MaxHighlightLeaves + 1
  /\ LineCount(knowledgeQuestionDigest) = 1 + MaxHighlightLeaves

-----------------------------------------------------------------------------
(* Properties of the knowledge context (SpecRoute)                          *)

\* what the lookup gives for each knowledge point of a plan item
FoundFor(planItem) ==
  [k \in 1..Len(planItem.knowledgePoints) |->
     lookupKnowledgeDetail(knowledgeMap, planItem.knowledgePoints[k])]

\* the points whose lookup succeeds with a detail no earlier point gave
FirstFinds(foundFor) ==
  { k \in DOMAIN foundFor :
      /\ Truthy(foundFor[k])
      /\ \A j \in 1..(k - 1) : foundFor[j] # foundFor[k] }

\* the context text that lists the first MaxDetails of these details
ListedContext(foundFor, firstFinds) ==
  ContextHead \o
    join([n \in 1..MathMin(MaxDetails, Cardinality(firstFinds)) |->
            numberToString(n) \o <<".", " ">> \o foundFor[Nth(firstFinds, n)]],
         <<"\n">>)

\* the knowledge line of an instruction built with the context
KnowledgeLine(context) ==
  KnowledgeHead \o (IF Len(context) > MaxKnowledgeLength
                    THEN SubSeq(context, 1, MaxKnowledgeLength) \o Dots
                    ELSE context)

\* C23: the knowledge context of a plan item lists the details found for its
\* knowledge points in the order of the points, each detail string once, the
\* first 8 distinct ones at most; every Send of the item is built with the
\* same context, so that the Sends of one item are alike but for the order
\* number.
C23_ContextOfItem ==
  Routed =>
    /\ \A planItem \in { sends[t].args.planItem : t \in Tasks } :
         \A foundFor \in {FoundFor(planItem)} :
           \A firstFinds \in {FirstFinds(foundFor)} :
             firstFinds # {} =>
               \A line \in {KnowledgeLine(ListedContext(foundFor, firstFinds))} :
                 \A t \in Tasks :
                   sends[t].args.planItem = planItem =>
                     sends[t].args.instructions.knowledge = line
    /\ \A s, t \in Tasks :
         sends[s].args.planItem = sends[t].args.planItem =>
           /\ sends[s].node = sends[t].node
           /\ [sends[s].args.instructions EXCEPT !.order = 0]
                = [sends[t].args.instructions EXCEPT !.order = 0]

\* an item with more than 8 distinct details and a detail found twice under
\* different names: its two Sends carry the context of exactly 8 lines
C23_Witness ==
  /\ Routed
  /\ Len(sends) = 2
  /\ \E foundFor \in {FoundFor(sends[1].args.planItem)} :
       /\ Cardinality(FirstFinds(foundFor)) > MaxDetails
       /\ \E j, k \in DOMAIN foundFor :
            /\ j < k
            /\ sends[1].args.planItem.knowledgePoints[j]
                 # sends[1].args.planItem.knowledgePoints[k]
            /\ Truthy(foundFor[j])
            /\ foundFor[j] = foundFor[k]
       /\ LineCount(sends[1].args.instructions.knowledge) = 2 + MaxDetails
  /\ sends[1].args.instructions.knowledge = sends[2].args.instructions.knowledge
  /\ sends[1].args.instructions.order # sends[2].args.instructions.order

-----------------------------------------------------------------------------
(* Properties of the steps of the workflow (Spec)                           *)

\* a step of a handler: the task's position moves, or the run fails in it
HandlerStep == pc = "handlers" /\ (taskpc' # taskpc \/ pc' = "failed")

\* C24: once prepareKnowledge has written knowledgeMap no step writes it;
\* the fan-out and the handlers leave knowledgeMap and examPlan as they
\* are, and a handler's step changes no channel but questions, to which it
\* only appends.
C24_ReadOnlyAfterBuild ==
  [][ /\ (pc # "__start__" => knowledgeMap' = knowledgeMap)
      /\ (pc \in {"routeExamPlan", "handlers"} => examPlan' = examPlan)
      /\ (HandlerStep =>
            /\ UNCHANGED <<knowledgeTree, knowledgeOutline, knowledgeQuestionDigest,
                           knowledgeMap, examPlan, sends, output>>
            /\ Len(questions') >= Len(questions)
            /\ SubSeq(questions', 1, Len(questions)) = questions) ]_vars

\* one handler has returned its question while another is calling its
\* generator, with the map and the plan in place
C24_Witness ==
  /\ pc = "handlers"
  /\ Len(knowledgeMap) > 0
  /\ Len(examPlan) > 0
  /\ Len(questions) > 0
  /\ \E s, t \in Tasks : taskpc[s] = "done" /\ taskpc[t] = "calling"

\* the moves of the run from one step to the next: the summarizer, then
\* planning, then the fan-out, then the handlers, then the output step
StepOrder ==
  { <<"__start__", "prepareExamPlan">>, <<"prepareExamPlan", "routeExamPlan">>,
    <<"routeExamPlan", "handlers">>, <<"routeExamPlan", "__end__">>,
    <<"handlers", "__end__">>,
    <<"prepareExamPlan", "failed">>, <<"handlers", "failed">> }

TaskOrder == { <<"pending", "calling">>, <<"calling", "done">> }

\* C25: the steps of a run happen in the order summarizer, planning,
\* fan-out, handlers, output: planning has written nothing while the
\* summarizer has not finished, no Send exists before planning has finished,
\* no handler has started before the fan-out, output is written after the
\* handlers only; the run never goes back to an earlier step, and each
\* emitted task is handled once.
C25_StepsInOrder ==
  /\ []( /\ pc = "__start__" => knowledgeMap = EmptyObject /\ knowledgeOutline = <<>>
         /\ pc \in {"__start__", "prepareExamPlan"} => examPlan = <<>>
         /\ pc \in {"__start__", "prepareExamPlan", "routeExamPlan"}
              => sends = <<>> /\ taskpc = <<>> /\ questions = <<>>
         /\ pc # "__end__" => ~output.set
         /\ output.set => \A t \in Tasks : taskpc[t] = "done"
         /\ \A t \in Tasks : Cardinality(EntriesOf(t)) <= 1
         /\ Len(questions) <= Len(sends) )
  /\ [][ /\ pc' # pc => <<pc, pc'>> \in StepOrder
         /\ \A t \in Tasks :
              (t \in DOMAIN taskpc /\ taskpc'[t] # taskpc[t])
                => <<taskpc[t], taskpc'[t]>> \in TaskOrder
         /\ sends # <<>> => sends' = sends
         /\ examPlan # <<>> => examPlan' = examPlan ]_vars

\* a run that went through every step: three or more tasks, all handled,
\* and output written at the end
C25_Witness ==
  /\ pc = "__end__"
  /\ output.set
  /\ Len(sends) >= MinBlueprint
  /\ Len(questions) = Len(sends)
  /\ Len(knowledgeMap) > 0

-----------------------------------------------------------------------------
(* Runs of the workflow to their end                                        *)

\* most items of a blueprint of these runs
MaxBlueprint == 4

\* blueprints the plan schema lets through: MinBlueprint items or more
LivePlans ==
  { plan \in UNION { [1..n -> WorkflowItems] : n \in MinBlueprint..MaxBlueprint } :
      TaskCount(plan, Len(plan)) <= MaxTasks }

\* the difficulty the generators of these runs report
LiveDifficulties == {MaxDifficulty}

InitLive ==
  /\ input = JsonInput(WorkflowDoc)
  /\ pc = "__start__"
  /\ knowledgeTree = input.text
  /\ DefaultChannels

\* the planner's call and the generator's call of task t coming to an end,
\* one way or the other
PlannerAnswers ==
  (\E blueprint \in LivePlans : prepareExamPlan(blueprint)) \/ prepareExamPlanThrows
GeneratorAnswers(t) ==
  \/ \E difficulty \in LiveDifficulties :
        SingleChoice(t, difficulty) \/ MultipleChoices(t, difficulty) \/ ShortAnswer(t, difficulty)
  \/ HandlerThrows(t)

NextLive ==
  \/ prepareKnowledgeContext
  \/ PlannerAnswers
  \/ Route
  \/ \E t \in Tasks : HandlerEnter(t)
  \/ \E t \in Tasks : GeneratorAnswers(t)
  \/ outputQuestions

\* The moves of the run's position (pc and the tasks' positions) that the
\* steps of NextLive make: every step of NextLive makes one of them, and a
\* step that makes one of them is the step of the node named.
PrepareKnowledgeRuns == pc = "__start__" /\ pc' = "prepareExamPlan"
PlannerSettles == pc = "prepareExamPlan" /\ pc' \in {"routeExamPlan", "failed"}
EdgeRuns == pc = "routeExamPlan" /\ pc' \in {"handlers", "__end__"}
TaskMoves(t) ==
  /\ pc = "handlers"
  /\ t \in DOMAIN taskpc
  /\ taskpc[t] # "done"
  /\ \/ /\ taskpc' = [taskpc EXCEPT ![t] = IF taskpc[t] = "pending" THEN "calling" ELSE "done"]
        /\ pc' = pc
     \/ /\ pc' = "failed"
        /\ taskpc' = taskpc
OutputRuns == pc = "handlers" /\ (\A t \in Tasks : taskpc[t] = "done") /\ pc' = "__end__"

\* The runtime runs every node that is due to its end, and a call that is
\* awaited settles (it resolves or rejects): no node and no task stays
\* where it is for ever.
Fairness ==
  /\ WF_pc(PrepareKnowledgeRuns)
  /\ WF_pc(PlannerSettles)
  /\ WF_pc(EdgeRuns)
  /\ \A t \in 1..MaxTasks : WF_<<pc, taskpc>>(TaskMoves(t))
  /\ WF_pc(OutputRuns)

SpecLive == InitLive /\ [][NextLive]_vars /\ Fairness

\* C26: a run in which no call fails ends with output set, for every
\* blueprint the planner can hand over; output is written once, and after
\* it nothing changes.
C26_RunEndsWithOutput ==
  /\ ([]~Failed) => <>[](pc = "__end__" /\ output.set)
  /\ [][output' # output => ~output.set /\ output'.set]_vars
  /\ [][output.set => UNCHANGED vars]_vars

\* the end of a run of a blueprint of more than MinBlueprint items
C26_Witness ==
  /\ pc = "__end__"
  /\ output.set
  /\ Len(examPlan) > MinBlueprint
  /\ Len(output.value) = Len(sends)

\* C27: every question carries the question type of the plan item and of the
\* Send it was generated for as its Type, and the ProblemType code of that
\* type (1 for SingleChoice, 2 for MultipleChoices, 5 for ShortAnswer).
C27_TypeMatchesPlanItem ==
  \A i \in 1..Len(questions) :
    /\ questions[i].Type = PlanItemOf(questions[i]).questionType
    /\ questions[i].Type = sends[questions[i].task].node
    /\ questions[i].ProblemType
         = QUESTION_TYPE_PROBLEM_TYPE[PlanItemOf(questions[i]).questionType]

-----------------------------------------------------------------------------
(* Properties of the counts in the outline and in the branch details        *)

\* node n is node m or lies below it
RECURSIVE IsBelow(_, _, _)
IsBelow(doc, n, m) ==
  IF n = m THEN TRUE
  ELSE IF ParentOf(doc, n) = 0 THEN FALSE
  ELSE IsBelow(doc, ParentOf(doc, n), m)

\* the leaves of the subtree of node m
SubtreeLeaves(doc, m) ==
  { n \in 1..Len(doc.nodes) : Len(ChildEntries(doc.nodes[n])) = 0 /\ IsBelow(doc, n, m) }

\* the sum of the leaf counts of the first n outline lines
RECURSIVE CountedLeaves(_)
CountedLeaves(n) ==
  IF n = 0 THEN 0
  ELSE CountedLeaves(n - 1) + Cardinality(LeavesBelow(Nth(SecondLevel, n)))

\* C28: the leaf count of every outline line is the number of leaves in the
\* subtree of the branch the line stands for, so that the counts of all lines
\* add up to the header's total at most, also when branches share a label.
C28_CountIsSubtreeSize ==
  Parsed =>
    \A order \in {PreOrder(input.doc, input.doc.top, 1, Len(input.doc.top))} :
      /\ \A n \in 1..Cardinality(SecondLevel) :
           \A b \in {Nth(SecondLevel, n)} :
             StartsWith(Line(knowledgeOutline, n + 1),
                        numberToString(n) \o <<".", " ">>
                          \o join(branchInfo[b].path, PathSeparator) \o LeafCountHead
                          \o numberToString(
                               Cardinality(SubtreeLeaves(input.doc, order[branchInfo[b].visit])))
                          \o CountTail)
      /\ CountedLeaves(Cardinality(SecondLevel)) <= Len(leafNodes)

\* the children of node m that the traversal records: its object children
RecordedChildren(doc, m) == { n \in 1..Len(doc.nodes) : ParentOf(doc, n) = m }

\* C29: the child count kept for a branch (the count its detail string
\* shows) is the number of its children that the traversal records as a leaf
\* or a branch, also when its children list holds entries that are no
\* objects.
C29_ChildCountIsRecorded ==
  Parsed =>
    \A order \in {PreOrder(input.doc, input.doc.top, 1, Len(input.doc.top))} :
      \A b \in 1..Len(branchInfo) :
        branchInfo[b].childCount
          = Cardinality(RecordedChildren(input.doc, order[branchInfo[b].visit]))

-----------------------------------------------------------------------------
(* What a lookup can return                                                 *)

\* the key stands in one of the relations that let a lookup answer with it
KeyAnswers(key, query) ==
  \/ key = trim(query)
  \/ key = replaceWhiteSpace(trim(query), <<>>)
  \/ includes(key, trim(query))
  \/ includes(trim(query), key)
  \/ includes(toLowerCase(key), toLowerCase(trim(query)))

\* C30: a lookup returns not-found or a value that the map stores under a
\* key that equals the trimmed query or its whitespace-stripped form,
\* contains the trimmed query, is contained in it, or contains it without
\* regard to case; a query that is empty or all white space returns
\* not-found.
C30_ReturnsStoredValue ==
  Looked =>
    /\ found = Undefined
         \/ \E i \in 1..Len(knowledgeMap) :
              /\ knowledgeMap[i].value = found
              /\ KeyAnswers(knowledgeMap[i].key, point)
    /\ Len(trim(point)) = 0 => found = Undefined

====
